---- MODULE Spec2Model ----
(***************************************************************************)
(* pi-test-harness: the playbook engine (playbook.ts), the tool execution  *)
(* interceptor (mock-tools.ts), the event collector (events.ts) and the    *)
(* session orchestrator (session.ts), driven by the agent loop of the host *)
(* runtime.                                                                *)
(*                                                                         *)
(* Texts (messages, reasons, result texts) are sequences of tokens, so     *)
(* that String.includes is a real test on the text.  Optional values are   *)
(* sequences of length 0 or 1.                                             *)
(***************************************************************************)
EXTENDS Naturals, Sequences, FiniteSets, TLC

\* ------------------------------------------------------------------ bounds
\* number of run() calls on the one session
MaxRuns == 2
\* number of actions the playbooks of all runs of the session can have dequeued
MaxSteps == 4
\* number of invocations of methods of the mock UI
MaxUICalls == 2
\* number of dispose() calls on one session
MaxDisposals == 2
\* number of onCall(), reset() and pi invocations over the mock pi instances
MaxPiEvents == 5
\* number of mock pi CLI processes running at the same time
MaxPiProcs == 2
\* number of mock pi instances installed and uninstalled in any order
MaxPis == 3
\* number of tool_execution_start events the runtime delivers to the subscriber
MaxEvents == 4

\* --------------------------------------------------------------- optionals
None == <<>>
Some(x) == <<x>>
IsSome(o) == Len(o) > 0
Get(o) == o[1]

\* ------------------------------------------------------------------- texts
\* String.prototype.includes on a token text
Includes(text, phrase) == \E i \in 1..Len(text) : text[i] = phrase

RECURSIVE JoinTexts(_)
\* Array.prototype.join("\n") over texts
JoinTexts(ts) ==
  IF Len(ts) = 0 THEN <<>>
  ELSE IF Len(ts) = 1 THEN ts[1]
  ELSE ts[1] \o <<"\n">> \o JoinTexts(Tail(ts))

RECURSIVE FilterText(_)
\* content.filter(c => c.type === "text").map(c => c.text)
FilterText(content) ==
  IF Len(content) = 0 THEN <<>>
  ELSE IF content[1].type = "text"
       THEN <<content[1].text>> \o FilterText(Tail(content))
       ELSE FilterText(Tail(content))

\* the concatenated text of a content array
ContentText(content) == JoinTexts(FilterText(content))

TextItem(t) == [type |-> "text", text |-> t]
ImageItem == [type |-> "image", text |-> <<>>]

\* ------------------------------------------------------------------ values
ToolNames == {"bash", "counter"}

\* parameter objects: one field, id
NoParams == [id |-> <<>>]
FixedParams == [id |-> <<"fixed">>]

\* values of the variable the late-bound producer closes over
EnvVals == {<<"changed">>}

\* PlaybookAction
CallAction(t, pk, th) ==
  [type |-> "call", toolName |-> t, params |-> pk, text |-> <<>>, thenCallback |-> th]
SayAction(txt) ==
  [type |-> "say", toolName |-> "", params |-> "undefined", text |-> txt, thenCallback |-> "none"]

\* when(prompt, actions)
when(prompt, actions) == [prompt |-> prompt, actions |-> actions]

\* calls(toolName, params): params is a fixed object or a producer
calls(t, pk) == CallAction(t, pk, "none")

\* CallAction.then(callback)
then(a, cb) == [a EXCEPT !.thenCallback = cb]

\* says(text)
says(txt) == SayAction(txt)

\* the playbooks the test author passes to run()
Scripts ==
     { <<when("p1", <<then(calls(t, k[1]), k[2]), says(<<"done">>)>>)>> :
          t \in ToolNames,
          k \in {<<"fixed", "none">>, <<"late", "capture">>, <<"fixed", "throws">>} }
  \cup { <<when("p1", <<then(calls(t, "fixed"), "capture"), calls("counter", "late"),
                        says(<<"done">>)>>)>> : t \in ToolNames }
  \cup { <<when("p1", <<says(<<"hi">>)>>)>>,
         <<when("p1", <<says(<<"one">>)>>), when("p2", <<says(<<"two">>)>>)>>,
         <<when("p1", <<says(<<"one">>), says(<<"two">>)>>)>>,
         <<when("p1", <<>>), when("p2", <<>>)>>,
         <<when("p1", <<says(<<"1">>), says(<<"2">>), says(<<"3">>), says(<<"4">>),
                        says(<<"5">>), says(<<"6">>), says(<<"7">>)>>)>>,
         <<when("p1", <<calls("counter", "fixed"), says(<<"one">>)>>),
           when("p2", <<says(<<"two">>)>>)>>,
         <<when("p1", <<says(<<"early">>), calls("bash", "fixed")>>)>>,
         <<when("p1", <<says(<<"one">>)>>),
           when("p2", <<calls("bash", "fixed"), says(<<"two">>)>>)>>,
         <<when("p1", <<calls("bash", "late")>>)>> }

\* MockToolHandler: string | ToolResult | function of params
HString == [kind |-> "string", text |-> <<"ok">>,
            result |-> [content |-> <<>>, details |-> None, isError |-> None]]
HFunction == [kind |-> "function", text |-> <<"$">>,
              result |-> [content |-> <<>>, details |-> None, isError |-> None]]
HResult == [kind |-> "result", text |-> <<>>,
            result |-> [content |-> <<TextItem(<<"Written">>), ImageItem, TextItem(<<"successfully">>)>>,
                        details |-> Some("bytesWritten"), isError |-> Some(TRUE)]]

\* options.mockTools: absent, or a mapping of tool names to handlers
MockConfigs ==
  { None,
    Some([t \in {"bash"} |-> HString]),
    Some([t \in ToolNames |-> IF t = "bash" THEN HResult ELSE HFunction]) }

\* the event kinds the loaded extensions registered handlers for
HookConfigs == { {}, {"tool_call", "tool_result"} }

\* MockUIConfig: each of confirm, select, input, editor is absent, a static
\* value, or a function of the call's arguments
NoHandler == [kind |-> "undefined", bool |-> FALSE, num |-> 0, str |-> ""]
StaticBool(b) == [kind |-> "boolean", bool |-> b, num |-> 0, str |-> ""]
StaticNum(n) == [kind |-> "number", bool |-> FALSE, num |-> n, str |-> ""]
StaticStr(x) == [kind |-> "string", bool |-> FALSE, num |-> 0, str |-> x]
Computed == [kind |-> "function", bool |-> FALSE, num |-> 0, str |-> ""]
NoUIConfig == [confirm |-> NoHandler, select |-> NoHandler, input |-> NoHandler, editor |-> NoHandler]
MockUIConfigs ==
  [confirm : {NoHandler, StaticBool(FALSE), Computed},
   select : {NoHandler, StaticNum(1), StaticStr("b"), Computed},
   input : {NoHandler, StaticStr("typed"), Computed},
   editor : {NoHandler, StaticStr("edited"), Computed}]

\* the values a UI method returns: a boolean, a string, or undefined
Bool(b) == [t |-> "boolean", b |-> b, s |-> ""]
Str(x) == [t |-> "string", b |-> FALSE, s |-> x]
Undefined == [t |-> "undefined", b |-> FALSE, s |-> ""]

\* the arguments of a UI call: title (or message, or key), a second string
\* argument (message, placeholder, prefill, type, text) and the options
UIArgs(a1, a2, options) == [a1 |-> a1, a2 |-> a2, options |-> options]
UITitles == {"Delete?", "Pick"}
UIOptionLists == { <<"a", "b">>, <<"c">> }

\* what a tool_call handler chain answers: undefined, or {block, reason?}
DefaultBlockReason == <<"Tool execution was", "blocked", "by an extension">>
CallHookResults ==
  { [block |-> FALSE, reason |-> None],
    [block |-> TRUE, reason |-> None],
    [block |-> TRUE, reason |-> Some(<<"denied by policy">>)],
    [block |-> TRUE, reason |-> Some(<<"WRITE operation", "rejected">>)] }

\* what a tool_result handler chain answers: undefined, or {content?, details?}
ResultHookResults ==
  { None,
    Some([content |-> Some(<<TextItem(<<"redacted">>)>>), details |-> None]),
    Some([content |-> None, details |-> Some("hooked")]) }

\* messages of the errors a real tool throws
ErrorMessages == { <<"ENOENT">>, <<"socket", "blocked">> }

\* ------------------------------------------------------------------- state
VARIABLES
  mockTools,        \* options.mockTools (the handler objects are shared, mutable)
  propagateErrors,  \* options.propagateErrors ?? true
  hooks,            \* event kinds with registered extension handlers
  envVal,           \* the test's variable read by late-bound producers, written by callbacks
  hits,             \* per real tool: how often its real execute ran
  layers,           \* wrapForCollection layers around the real tools, innermost first:
                    \* each is the index of the run whose PlaybookState it closes over
  pb,               \* the PlaybookState of every run so far
  queue,            \* the action queue of the current engine
  toolCallCounter,  \* playbook.ts module counter
  currentStep,      \* session.ts currentStep
  toolCalls,        \* events.toolCalls
  toolResults,      \* events.toolResults
  pc,               \* where run() and the agent loop are
  turns,            \* the turns passed to run()
  turnIdx,          \* the turn being prompted
  message,          \* the last message the generation function produced
  outcome,          \* how the last tool.execute() ended
  scriptedVal,      \* envVal when the playbook was scripted
  runLog,           \* per finished run: its turns and how run() ended
  fired,            \* every completion callback invocation, in order
  evalLog,          \* every late-bound producer evaluation, in order
  last,             \* summary of the last tool invocation
  mockUI,           \* options.mockUI
  ui,               \* events.ui
  uiCalled,         \* every invocation of a method of the mock UI, with what it returned
  sessOptions,      \* createTestSession options: cwd given or not, what the extension loader reports
  fsDirs,           \* the working directories that exist
  fsHeld,           \* the directories with a file another subsystem holds open
  harness,          \* the lifecycle of the test session
  envPath,          \* process.env.PATH, a list of directories
  pis,              \* the mock pi instances: installed, originalPath, queue.json, counter
  piProcs,          \* the mock pi CLI processes that have read the files and not yet written
  piLog,            \* ghost: the onCall, reset and invocation history of each instance
  running           \* ghost: the positions in toolCalls of the executions that have not ended

vars == << mockTools, propagateErrors, hooks, envVal, hits, layers, pb, queue,
           toolCallCounter, currentStep, toolCalls, toolResults, pc, turns,
           turnIdx, message, outcome, scriptedVal, runLog, fired, evalLog, last,
           mockUI, ui, uiCalled,
           sessOptions, fsDirs, fsHeld, harness, envPath, pis, piProcs, piLog, running >>

\* the state of the playbook, the interceptor, the collector and the mock UI
sessionVars ==
  << mockTools, propagateErrors, hooks, envVal, hits, layers, pb, queue,
     toolCallCounter, currentStep, toolCalls, toolResults, pc, turns,
     turnIdx, message, outcome, scriptedVal, runLog, fired, evalLog, last,
     mockUI, ui, uiCalled, running >>

\* the state of session setup and disposal
setupVars == << sessOptions, fsDirs, fsHeld, harness >>

\* the state of the mock pi CLI
piVars == << envPath, pis, piProcs, piLog >>

\* ------------------------------------------------- setup, mock pi: values
\* process.env.PATH before any mock pi is installed
SystemPath == << <<"/usr/bin", 0>> >>
\* the temporary directory mkdtempSync creates and the one the caller supplies
TmpDir == "tmp"
CallerDir == "caller"

\* the harness of a session before createTestSession
NoHarness ==
  [phase |-> "none", ownsTmpDir |-> FALSE, cwd |-> "", runtimeDisposals |-> 0,
   subscribed |-> FALSE, uiBound |-> FALSE, runs |-> 0, disposals |-> 0,
   setupError |-> None, disposeError |-> None]

\* a session that createTestSession returned, in its own temporary directory
SetupDone ==
  /\ sessOptions = [cwdGiven |-> FALSE, extensionErrors |-> <<>>]
  /\ fsDirs = {TmpDir}
  /\ fsHeld = {}
  /\ harness = [NoHarness EXCEPT !.phase = "ready", !.ownsTmpDir = TRUE, !.cwd = TmpDir,
                                 !.subscribed = TRUE, !.uiBound = TRUE]

\* no mock pi instance was created
NoMockPi ==
  /\ envPath = SystemPath
  /\ pis = <<>>
  /\ piProcs = {}
  /\ piLog = <<>>

\* ------------------------------------------------------------------- maps
EmptyMap == [k \in {} |-> [run |-> 0, idx |-> 0, kind |-> "none"]]
MapSet(m, k, v) == [x \in DOMAIN m \cup {k} |-> IF x = k THEN v ELSE m[x]]
MapDelete(m, k) == [x \in DOMAIN m \ {k} |-> m[x]]

\* --------------------------------------------------------------- playbook
\* a queue filled from the first turn only
FlattenFirstTurn(ts) ==
  IF Len(ts) = 0 THEN <<>> ELSE ts[1].actions

RECURSIVE Flatten(_)
\* for (const turn of turns) queue.push(...turn.actions)
Flatten(ts) ==
  IF Len(ts) = 0 THEN <<>> ELSE ts[1].actions \o Flatten(Tail(ts))

\* the producer the test scripts for a late-bound call: () => ({ id: thingId })
Producer(env) == [id |-> env]

\* resolveParams with the producer's value taken when the playbook was scripted
resolveParamsMemoized(params, env) ==
  IF params = "undefined" THEN NoParams
  ELSE IF params = "late" THEN Producer(scriptedVal)
  ELSE FixedParams

\* resolveParams: undefined -> {}, a producer -> its value now, an object -> itself
resolveParams(params, env) ==
  IF params = "undefined" THEN NoParams
  ELSE IF params = "late" THEN Producer(env)
  ELSE FixedParams

\* the id createAssistantMessage gives the tool call
ToolCallId(n) == "playbook-tc-" \o ToString(n)

NoMessage ==
  [stopReason |-> "none", type |-> "none", id |-> "", name |-> "",
   arguments |-> NoParams, text |-> <<>>]

\* createAssistantMessage(action), with the counter already incremented
createAssistantMessage(action, counter, env) ==
  IF action.type = "say"
  THEN [stopReason |-> "stop", type |-> "text", id |-> "", name |-> "",
        arguments |-> NoParams, text |-> action.text]
  ELSE [stopReason |-> "toolUse", type |-> "toolCall", id |-> ToolCallId(counter),
        name |-> action.toolName, arguments |-> resolveParams(action.params, env),
        text |-> <<>>]

\* a fallback message that does not say the playbook is exhausted
ExhaustedMessageUnmarked ==
  [stopReason |-> "stop", type |-> "text", id |-> "", name |-> "",
   arguments |-> NoParams, text |-> <<"Playbook exhausted unexpectedly.">>]

\* the fallback message of an exhausted playbook
ExhaustedMessage ==
  [stopReason |-> "stop", type |-> "text", id |-> "", name |-> "",
   arguments |-> NoParams, text |-> <<"[PLAYBOOK EXHAUSTED]", "Playbook exhausted unexpectedly.">>]

\* a fresh PlaybookState whose remaining counts the turns
NewPlaybookStateCountingTurns(ts) ==
  [consumed |-> 0, remaining |-> Len(ts), consumedActions |-> <<>>,
   pendingCallbacks |-> EmptyMap]

\* createPlaybookStreamFn: the fresh PlaybookState
NewPlaybookState(ts) ==
  [consumed |-> 0, remaining |-> Len(Flatten(ts)), consumedActions |-> <<>>,
   pendingCallbacks |-> EmptyMap]

NoOutcome ==
  [kind |-> "none",
   result |-> [content |-> <<>>, details |-> None, isError |-> None],
   err |-> None]

NoLast ==
  [run |-> 0, idx |-> 0, tool |-> "", id |-> "", path |-> "none", truth |-> "none",
   hook |-> None, reason |-> <<>>, handlerCalls |-> 0, resultHookEmits |-> 0,
   resultHook |-> None, recordsBefore |-> 0, firedBefore |-> 0, depth |-> 0]

Init ==
  /\ mockTools \in MockConfigs
  /\ propagateErrors \in BOOLEAN
  /\ hooks \in HookConfigs
  /\ envVal = <<>>
  /\ hits = [t \in ToolNames |-> 0]
  /\ layers = <<>>
  /\ pb = <<>>
  /\ queue = <<>>
  /\ toolCallCounter = 0
  /\ currentStep = 0
  /\ toolCalls = <<>>
  /\ toolResults = <<>>
  /\ pc = "idle"
  /\ turns = <<>>
  /\ turnIdx = 0
  /\ message = NoMessage
  /\ outcome = NoOutcome
  /\ scriptedVal = <<>>
  /\ runLog = <<>>
  /\ fired = <<>>
  /\ evalLog = <<>>
  /\ last = NoLast
  /\ mockUI = NoUIConfig
  /\ ui = <<>>
  /\ uiCalled = <<>>
  /\ running = {}
  /\ SetupDone
  /\ NoMockPi

\* the index of the current run and its PlaybookState
CurRun == Len(pb)
State == pb[CurRun]

\* the actions the agent loop can dequeue from a playbook: a Say ends its
\* turn, so at most one per turn besides the Calls
Steps(ts) ==
  LET total == Len(Flatten(ts))
      reach == Len(SelectSeq(Flatten(ts), LAMBDA a : a.type = "call")) + Len(ts)
  IN IF total <= reach THEN total ELSE reach

RECURSIVE SumLen(_)
SumLen(log) == IF Len(log) = 0 THEN 0 ELSE Steps(log[1].turns) + SumLen(Tail(log))

\* the actions the finished runs can have dequeued
Scripted == SumLen(runLog)

\* the test author writes the turns of the next run()
Script(s) ==
  /\ pc = "idle"
  /\ Len(runLog) < MaxRuns
  /\ Scripted + Steps(s) <= MaxSteps
  /\ turns' = s
  /\ scriptedVal' = envVal
  /\ pc' = "scripted"
  /\ UNCHANGED << mockTools, propagateErrors, hooks, envVal, hits, layers, pb, queue,
                  toolCallCounter, currentStep, toolCalls, toolResults, turnIdx,
                  message, outcome, runLog, fired, evalLog, last,
                  mockUI, ui, uiCalled,
                  sessOptions, fsDirs, fsHeld, harness, envPath, pis, piProcs, piLog, running >>

\* the test changes the captured variable after scripting, before run()
TestSetVar(v) ==
  /\ pc = "scripted"
  /\ envVal # v
  /\ envVal' = v
  /\ UNCHANGED << mockTools, propagateErrors, hooks, hits, layers, pb, queue,
                  toolCallCounter, currentStep, toolCalls, toolResults, pc, turns, turnIdx,
                  message, outcome, scriptedVal, runLog, fired, evalLog, last,
                  mockUI, ui, uiCalled,
                  sessOptions, fsDirs, fsHeld, harness, envPath, pis, piProcs, piLog, running >>

\* run(): a fresh engine, then wrap the session's current tools if mockTools is set
RunStart ==
  /\ pc = "scripted"
  /\ pb' = Append(pb, NewPlaybookState(turns))
  /\ queue' = Flatten(turns)
  /\ toolCallCounter' = 0
  /\ layers' = IF IsSome(mockTools) THEN Append(layers, Len(pb) + 1) ELSE layers
  /\ turnIdx' = 1
  /\ pc' = "prompt"
  /\ UNCHANGED << mockTools, propagateErrors, hooks, envVal, hits, currentStep,
                  toolCalls, toolResults, turns, message, outcome, scriptedVal,
                  runLog, fired, evalLog, last,
                  mockUI, ui, uiCalled,
                  sessOptions, fsDirs, fsHeld, harness, envPath, pis, piProcs, piLog, running >>

\* session.prompt(turn.prompt) without the update of currentStep
PromptKeepingStep ==
  /\ pc = "prompt"
  /\ pc' = "gen"
  /\ UNCHANGED << mockTools, propagateErrors, hooks, envVal, hits, layers, pb, queue,
                  toolCallCounter, currentStep, toolCalls, toolResults, turns, turnIdx,
                  message, outcome, scriptedVal, runLog, fired, evalLog, last,
                  mockUI, ui, uiCalled,
                  sessOptions, fsDirs, fsHeld, harness, envPath, pis, piProcs, piLog, running >>

\* currentStep = state.consumed; session.prompt(turn.prompt)
Prompt ==
  /\ pc = "prompt"
  /\ currentStep' = State.consumed
  /\ pc' = "gen"
  /\ UNCHANGED << mockTools, propagateErrors, hooks, envVal, hits, layers, pb, queue,
                  toolCallCounter, toolCalls, toolResults, turns, turnIdx, message,
                  outcome, scriptedVal, runLog, fired, evalLog, last,
                  mockUI, ui, uiCalled,
                  sessOptions, fsDirs, fsHeld, harness, envPath, pis, piProcs, piLog, running >>

\* streamFn on an empty queue
StreamFnExhausted ==
  /\ pc = "gen"
  /\ queue = <<>>
  /\ message' = ExhaustedMessage
  /\ pc' = "turnend"
  /\ UNCHANGED << mockTools, propagateErrors, hooks, envVal, hits, layers, pb, queue,
                  toolCallCounter, currentStep, toolCalls, toolResults, turns, turnIdx,
                  outcome, scriptedVal, runLog, fired, evalLog, last,
                  mockUI, ui, uiCalled,
                  sessOptions, fsDirs, fsHeld, harness, envPath, pis, piProcs, piLog, running >>

\* the late-bound producer of the action throws when it is called
producerThrows(action) == action.type = "call" /\ action.params = "throws"

\* streamFn: dequeue the next action and answer with it
StreamFn ==
  /\ pc = "gen"
  /\ queue # <<>>
  /\ ~producerThrows(Head(queue))
  /\ LET action == Head(queue)
         counter == IF action.type = "call" THEN toolCallCounter + 1 ELSE toolCallCounter
         msg == createAssistantMessage(action, counter, envVal)
         consumed == State.consumed + 1
         registers == action.type = "call" /\ action.thenCallback # "none"
         cb == [run |-> CurRun, idx |-> consumed, kind |-> action.thenCallback]
     IN /\ queue' = Tail(queue)
        /\ toolCallCounter' = counter
        /\ pb' = [pb EXCEPT ![CurRun] =
                    [consumed |-> consumed,
                     remaining |-> Len(queue) - 1,
                     consumedActions |-> Append(@.consumedActions, action),
                     pendingCallbacks |->
                       IF registers THEN MapSet(@.pendingCallbacks, msg.id, cb)
                       ELSE @.pendingCallbacks]]
        /\ message' = msg
        /\ evalLog' = IF action.type = "call" /\ action.params = "late"
                      THEN Append(evalLog, [run |-> CurRun, idx |-> consumed, value |-> envVal])
                      ELSE evalLog
        /\ pc' = IF msg.stopReason = "toolUse" THEN "toolstart" ELSE "turnend"
  /\ UNCHANGED << mockTools, propagateErrors, hooks, envVal, hits, layers,
                  currentStep, toolCalls, toolResults, turns, turnIdx, outcome,
                  scriptedVal, runLog, fired, last,
                  mockUI, ui, uiCalled,
                  sessOptions, fsDirs, fsHeld, harness, envPath, pis, piProcs, piLog, running >>

\* ------------------------------------------------------------ interceptor
NoResult == [content |-> <<>>, details |-> None, isError |-> None]

\* new Error(message)
PlainError(msg) == [name |-> "Error", message |-> msg, toolBlocked |-> FALSE, cause |-> None]

\* new Error(message, { cause })
CausedError(msg, cause) ==
  [name |-> "Error", message |-> msg, toolBlocked |-> FALSE, cause |-> Some(cause)]

Threw(err) == [kind |-> "throw", result |-> NoResult, err |-> Some(err)]
Returned(res) == [kind |-> "return", result |-> res, err |-> None]

\* formatToolError(step, toolName, error); the errors of the model carry no stack
formatToolError(step, toolName, error) ==
  <<"Error during tool execution at playbook step", ToString(step), "(call", toolName, "):">>
  \o error.message
  \o <<"This error was thrown by the real tool execution, not by the playbook.",
       "To capture errors as tool results instead of aborting, set:",
       "createTestSession({ propagateErrors: false })">>

\* the completion callback of the test: thingId = result.text, or one that
\* throws before it does anything
InvokeCallback(cb, record, env) ==
  IF cb.kind = "capture" THEN record.text ELSE env

\* the error a throwing completion callback raises
CallbackError == PlainError(<<"callback failed">>)

\* fireThenCallback without the try/catch around callback(record)
fireThenCallbackUncaught(ctx, r, toolCallId, record) ==
  LET pending == ctx.pb[r].pendingCallbacks
      found == toolCallId \in DOMAIN pending \/ record.toolName \in DOMAIN pending
      key == IF toolCallId \in DOMAIN pending THEN toolCallId ELSE record.toolName
  IN IF ~found THEN ctx
     ELSE [ctx EXCEPT !.pb[r].pendingCallbacks = MapDelete(pending, key),
                      !.envVal = InvokeCallback(pending[key], record, @),
                      !.fired = Append(@, [cb |-> pending[key], record |-> record]),
                      !.out = IF pending[key].kind = "throws" THEN Threw(CallbackError) ELSE @]

\* fireThenCallback that always deletes the entry of the call id
fireThenCallbackDeletingById(ctx, r, toolCallId, record) ==
  LET pending == ctx.pb[r].pendingCallbacks
      found == toolCallId \in DOMAIN pending \/ record.toolName \in DOMAIN pending
      key == IF toolCallId \in DOMAIN pending THEN toolCallId ELSE record.toolName
  IN IF ~found THEN ctx
     ELSE [ctx EXCEPT !.pb[r].pendingCallbacks = MapDelete(pending, toolCallId),
                      !.envVal = InvokeCallback(pending[key], record, @),
                      !.fired = Append(@, [cb |-> pending[key], record |-> record])]

\* fireThenCallback(state, toolCallId, record) on the PlaybookState of run r;
\* ctx carries the state the interceptor writes; what the callback throws is
\* caught and logged
fireThenCallback(ctx, r, toolCallId, record) ==
  LET pending == ctx.pb[r].pendingCallbacks
      found == toolCallId \in DOMAIN pending \/ record.toolName \in DOMAIN pending
      key == IF toolCallId \in DOMAIN pending THEN toolCallId ELSE record.toolName
  IN IF ~found THEN ctx
     ELSE [ctx EXCEPT !.pb[r].pendingCallbacks = MapDelete(pending, key),
                      !.envVal = InvokeCallback(pending[key], record, @),
                      !.fired = Append(@, [cb |-> pending[key], record |-> record])]

\* the record stored in place of the collected ones, then the callback
RecordAndFireReplacing(ctx, r, record) ==
  fireThenCallback([ctx EXCEPT !.toolResults = <<record>>], r, record.toolCallId, record)

\* toolResults.push(record); fireThenCallback(playbookState, toolCallId, record)
RecordAndFire(ctx, r, record) ==
  fireThenCallback([ctx EXCEPT !.toolResults = Append(@, record)], r, record.toolCallId, record)

\* wrapForCollection: errMsg.includes("blocked") || "Plan mode" || "WRITE operation"
isBlockedByHook(errMsg) ==
  \/ Includes(errMsg, "blocked")
  \/ Includes(errMsg, "Plan mode")
  \/ Includes(errMsg, "WRITE operation")

\* one wrapForCollection layer, closed over the PlaybookState of run r, around
\* an inner execute that ended as ctx.out
wrapForCollection(ctx, r, toolName, toolCallId) ==
  LET step == ctx.pb[r].consumed
      out == ctx.out
  IN IF out.kind = "return"
     THEN LET result == out.result
              record == [step |-> step, toolName |-> toolName, toolCallId |-> toolCallId,
                         text |-> ContentText(result.content), content |-> result.content,
                         isError |-> (IsSome(result.isError) /\ Get(result.isError)),
                         details |-> result.details, mocked |-> FALSE]
          IN RecordAndFire(ctx, r, record)
     ELSE LET err == Get(out.err)
              errMsg == err.message
              record == [step |-> step, toolName |-> toolName, toolCallId |-> toolCallId,
                         text |-> errMsg, content |-> <<TextItem(errMsg)>>,
                         isError |-> TRUE, details |-> None, mocked |-> FALSE]
              after == RecordAndFire(ctx, r, record)
          IN IF isBlockedByHook(errMsg) THEN after
             ELSE IF propagateErrors
             THEN [after EXCEPT !.out = Threw(CausedError(formatToolError(step, toolName, err), err))]
             ELSE [after EXCEPT !.out = Returned([content |-> <<TextItem(errMsg)>>,
                                                  details |-> Some("{}"),
                                                  isError |-> Some(TRUE)])]

RECURSIVE WrapLayers(_, _, _, _)
\* the layers of wrapForCollection around one real tool, innermost first
WrapLayers(ctx, ls, toolName, toolCallId) ==
  IF Len(ls) = 0 THEN ctx
  ELSE WrapLayers(wrapForCollection(ctx, Head(ls), toolName, toolCallId),
                  Tail(ls), toolName, toolCallId)

\* the real tool of the test: counts its executions and answers with the count
\* and its parameters, or throws
RealResult(toolName, params, n) ==
  [content |-> <<TextItem(<<toolName, ToString(n)>> \o params.id)>>,
   details |-> Some("real"), isError |-> None]

\* how the host's own execute of a tool can end: the host's hook chain blocks
\* it (only with tool_call handlers registered), the tool throws, or it succeeds
RealOutcomes ==
     { [kind |-> "ok", message |-> <<>>] }
  \cup { [kind |-> "error", message |-> m] : m \in ErrorMessages }
  \cup { [kind |-> "block", message |-> (IF r.reason = None THEN DefaultBlockReason ELSE Get(r.reason))] :
         r \in { x \in CallHookResults : x.block /\ "tool_call" \in hooks } }

\* originalExecute.call(tool, toolCallId, params, signal, onUpdate)
originalExecute(toolName, params, real) ==
  IF real.kind = "ok" THEN Returned(RealResult(toolName, params, hits[toolName] + 1))
  ELSE Threw(PlainError(real.message))

IsMocked(toolName) == IsSome(mockTools) /\ toolName \in DOMAIN Get(mockTools)

Ctx0 == [pb |-> pb, envVal |-> envVal, fired |-> fired, toolResults |-> toolResults,
         out |-> NoOutcome]

\* the summary of a tool invocation: which playbook action it belongs to, which
\* execute ran (path), what really happened (truth: ok, error, block), the
\* reason the hook gave (hook), the text of the error (reason) and what the
\* tool_result handlers answered (resultHook)
LastOf(path, truth, hook, reason, handlerCalls, resultHookEmits, resultHook) ==
  [run |-> CurRun, idx |-> State.consumed, tool |-> message.name, id |-> message.id,
   path |-> path, truth |-> truth, hook |-> hook, reason |-> reason,
   handlerCalls |-> handlerCalls,
   resultHookEmits |-> resultHookEmits, resultHook |-> resultHook,
   recordsBefore |-> Len(toolResults),
   firedBefore |-> Len(fired), depth |-> Len(layers)]

\* the subscriber on tool_execution_start: push a ToolCallRecord
onExecutionStart(records, step, toolName, args) ==
  Append(records, [step |-> step, toolName |-> toolName, input |-> args,
                   blocked |-> FALSE, blockReason |-> None])

\* the agent loop starts the tool call of the message
ExecStart ==
  /\ pc = "toolstart"
  /\ toolCalls' = onExecutionStart(toolCalls, currentStep, message.name, message.arguments)
  /\ running' = running \cup {Len(toolCalls) + 1}
  /\ pc' = "exec"
  /\ UNCHANGED << mockTools, propagateErrors, hooks, envVal, hits, layers, pb, queue,
                  toolCallCounter, currentStep, toolResults, turns, turnIdx, message,
                  outcome, scriptedVal, runLog, fired, evalLog, last,
                  mockUI, ui, uiCalled,
                  sessOptions, fsDirs, fsHeld, harness, envPath, pis, piProcs, piLog >>

\* tool.execute() of a tool no interceptor wrapped (run() without mockTools)
ExecUnwrapped(real) ==
  /\ pc = "exec"
  /\ ~IsSome(mockTools)
  /\ real \in RealOutcomes
  /\ outcome' = originalExecute(message.name, message.arguments, real)
  /\ hits' = IF real.kind = "block" THEN hits ELSE [hits EXCEPT ![message.name] = @ + 1]
  /\ last' = LastOf("unwrapped", real.kind, None, real.message, 0, 0, None)
  /\ pc' = "toolend"
  /\ UNCHANGED << mockTools, propagateErrors, hooks, envVal, layers, pb, queue,
                  toolCallCounter, currentStep, toolCalls, toolResults, turns, turnIdx,
                  message, scriptedVal, runLog, fired, evalLog,
                  mockUI, ui, uiCalled,
                  sessOptions, fsDirs, fsHeld, harness, envPath, pis, piProcs, piLog, running >>

\* tool.execute() of an unmocked tool under its wrapForCollection layers
ExecWrapped(real) ==
  /\ pc = "exec"
  /\ IsSome(mockTools)
  /\ ~IsMocked(message.name)
  /\ real \in RealOutcomes
  /\ LET inner == originalExecute(message.name, message.arguments, real)
         ctx == WrapLayers([Ctx0 EXCEPT !.out = inner], layers, message.name, message.id)
     IN /\ outcome' = ctx.out
        /\ pb' = ctx.pb
        /\ envVal' = ctx.envVal
        /\ fired' = ctx.fired
        /\ toolResults' = ctx.toolResults
  /\ hits' = IF real.kind = "block" THEN hits ELSE [hits EXCEPT ![message.name] = @ + 1]
  /\ last' = LastOf("wrapped", real.kind, None, real.message, 0, 0, None)
  /\ pc' = "toolend"
  /\ UNCHANGED << mockTools, propagateErrors, hooks, layers, queue, toolCallCounter,
                  currentStep, toolCalls, turns, turnIdx, message, scriptedVal,
                  runLog, evalLog,
                  mockUI, ui, uiCalled,
                  sessOptions, fsDirs, fsHeld, harness, envPath, pis, piProcs, piLog, running >>

\* normalizeMockResult with a function handler that is not given the parameters
normalizeMockResultWithoutParams(handler, params) ==
  IF handler.kind = "result" THEN handler.result
  ELSE [content |-> <<TextItem(handler.text)>>, details |-> Some("{}"), isError |-> None]

\* normalizeMockResult(handler, params): a string handler and the string a
\* function handler returns become one text item; a ToolResult handler is
\* returned itself
normalizeMockResult(handler, params) ==
  LET raw == IF handler.kind = "string" THEN handler.text
             ELSE IF handler.kind = "function" THEN handler.text \o params.id
             ELSE <<>>
  IN IF handler.kind = "result" THEN handler.result
     ELSE [content |-> <<TextItem(raw)>>, details |-> Some("{}"), isError |-> None]

\* the mock result as it would be if the answer of the hook were dropped
ApplyResultHookIgnored(result, resultHook) == result

\* result.content = resultHook.content ?? result.content; the same for details
ApplyResultHook(result, resultHook) ==
  IF ~IsSome(resultHook) THEN result
  ELSE [result EXCEPT
          !.content = IF IsSome(Get(resultHook).content) THEN Get(Get(resultHook).content) ELSE @,
          !.details = IF IsSome(Get(resultHook).details) THEN Get(resultHook).details ELSE @]

\* callResult.reason || "Tool execution was blocked by an extension"
BlockReason(callResult) ==
  IF IsSome(callResult.reason) /\ Get(callResult.reason) # <<>>
  THEN Get(callResult.reason) ELSE DefaultBlockReason

\* the error the mock path raises for a blocked call
MockBlockError(reason) == PlainError(reason)

\* the record of a blocked call, taken for a result of the mock handler
MockBlockRecordAsSuccess(step, toolName, toolCallId, reason) ==
  [step |-> step, toolName |-> toolName, toolCallId |-> toolCallId, text |-> reason,
   content |-> <<TextItem(reason)>>, isError |-> FALSE, details |-> None, mocked |-> TRUE]

\* the record the mock path pushes for a blocked call
MockBlockRecord(step, toolName, toolCallId, reason) ==
  [step |-> step, toolName |-> toolName, toolCallId |-> toolCallId, text |-> reason,
   content |-> <<TextItem(reason)>>, isError |-> TRUE, details |-> None, mocked |-> TRUE]

\* the mocked execute when the tool_call handlers block the call
MockBlocked(callResult) ==
  /\ pc = "exec"
  /\ IsMocked(message.name)
  /\ "tool_call" \in hooks
  /\ callResult \in CallHookResults
  /\ callResult.block
  /\ LET reason == BlockReason(callResult)
         record == MockBlockRecord(State.consumed, message.name, message.id, reason)
         ctx == RecordAndFire(Ctx0, CurRun, record)
     IN /\ pb' = ctx.pb
        /\ envVal' = ctx.envVal
        /\ fired' = ctx.fired
        /\ toolResults' = ctx.toolResults
        /\ outcome' = Threw(MockBlockError(reason))
        /\ last' = LastOf("mock", "block", callResult.reason, reason, 0, 0, None)
  /\ pc' = "toolend"
  /\ UNCHANGED << mockTools, propagateErrors, hooks, hits, layers, queue, toolCallCounter,
                  currentStep, toolCalls, turns, turnIdx, message, scriptedVal,
                  runLog, evalLog,
                  mockUI, ui, uiCalled,
                  sessOptions, fsDirs, fsHeld, harness, envPath, pis, piProcs, piLog, running >>

\* the mocked execute when no tool_call handler blocks
MockExecute(resultHook) ==
  /\ pc = "exec"
  /\ IsMocked(message.name)
  /\ resultHook \in ResultHookResults
  /\ "tool_result" \notin hooks => resultHook = None
  /\ LET handler == Get(mockTools)[message.name]
         result == ApplyResultHook(normalizeMockResult(handler, message.arguments), resultHook)
         record == [step |-> State.consumed, toolName |-> message.name,
                    toolCallId |-> message.id, text |-> ContentText(result.content),
                    content |-> result.content,
                    isError |-> (IsSome(result.isError) /\ Get(result.isError)),
                    details |-> result.details, mocked |-> TRUE]
         ctx == RecordAndFire(Ctx0, CurRun, record)
     IN /\ pb' = ctx.pb
        /\ envVal' = ctx.envVal
        /\ fired' = ctx.fired
        /\ toolResults' = ctx.toolResults
        \* a ToolResult handler is the object the hook's answer was written into
        /\ mockTools' = IF handler.kind = "result"
                        THEN Some([Get(mockTools) EXCEPT ![message.name].result = result])
                        ELSE mockTools
        /\ outcome' = Returned([content |-> result.content,
                                details |-> IF IsSome(result.details) THEN result.details ELSE Some("{}"),
                                isError |-> None])
        /\ last' = LastOf("mock", "ok", None, <<>>, IF handler.kind = "function" THEN 1 ELSE 0,
                          IF "tool_result" \in hooks THEN 1 ELSE 0, resultHook)
  /\ pc' = "toolend"
  /\ UNCHANGED << propagateErrors, hooks, hits, layers, queue, toolCallCounter,
                  currentStep, toolCalls, turns, turnIdx, message, scriptedVal,
                  runLog, evalLog,
                  mockUI, ui, uiCalled,
                  sessOptions, fsDirs, fsHeld, harness, envPath, pis, piProcs, piLog, running >>

\* --------------------------------------------------------- event collector
\* the subscriber's test of an error result's text
IsBlockText(resultText) ==
  Includes(resultText, "blocked") \/ Includes(resultText, "Plan mode")

\* the result the agent loop reports in tool_execution_end: a thrown error
\* becomes an error result with the error's message
EndEventOf(toolName, out) ==
  [toolName |-> toolName,
   isError |-> out.kind = "throw",
   content |-> IF out.kind = "throw" THEN <<TextItem(Get(out.err).message)>>
               ELSE out.result.content]

EndEvent == EndEventOf(message.name, outcome)

\* the subscriber on tool_execution_end: an error end whose text names a block
\* flags the last ToolCallRecord if it has the tool name of the event
onExecutionEnd(records, event) ==
  LET n == Len(records)
      resultText == ContentText(event.content)
  IN IF /\ event.isError
        /\ n > 0
        /\ records[n].toolName = event.toolName
        /\ IsBlockText(resultText)
     THEN [records EXCEPT ![n].blocked = TRUE, ![n].blockReason = Some(resultText)]
     ELSE records

\* the agent loop reports the end of the tool call
ExecEnd ==
  /\ pc = "toolend"
  /\ toolCalls' = onExecutionEnd(toolCalls, EndEvent)
  /\ running' = {}
  /\ pc' = "gen"
  /\ UNCHANGED << mockTools, propagateErrors, hooks, envVal, hits, layers, pb, queue,
                  toolCallCounter, currentStep, toolResults, turns, turnIdx, message,
                  outcome, scriptedVal, runLog, fired, evalLog, last,
                  mockUI, ui, uiCalled,
                  sessOptions, fsDirs, fsHeld, harness, envPath, pis, piProcs, piLog >>

\* events.toolResultsFor(name)
toolResultsFor(name) == SelectSeq(toolResults, LAMBDA tr : tr.toolName = name)

\* events.toolCallsFor(name)
toolCallsFor(name) == SelectSeq(toolCalls, LAMBDA tc : tc.toolName = name)

\* events.toolSequence()
toolSequence == [k \in 1..Len(toolCalls) |-> toolCalls[k].toolName]

\* events.blockedCalls()
blockedCalls == SelectSeq(toolCalls, LAMBDA tc : tc.blocked)

\* ------------------------------------------------------------ run(), end
\* the next turn taken up without waiting for the runtime to be idle
NextTurnBeforeIdle ==
  /\ pc \in {"turnend", "toolstart"}
  /\ turnIdx < Len(turns)
  /\ turnIdx' = turnIdx + 1
  /\ pc' = "prompt"
  /\ UNCHANGED << mockTools, propagateErrors, hooks, envVal, hits, layers, pb, queue,
                  toolCallCounter, currentStep, toolCalls, toolResults, turns, message,
                  outcome, scriptedVal, runLog, fired, evalLog, last,
                  mockUI, ui, uiCalled,
                  sessOptions, fsDirs, fsHeld, harness, envPath, pis, piProcs, piLog, running >>

\* waitForIdle() returned and another turn follows
NextTurn ==
  /\ pc = "turnend"
  /\ turnIdx < Len(turns)
  /\ turnIdx' = turnIdx + 1
  /\ pc' = "prompt"
  /\ UNCHANGED << mockTools, propagateErrors, hooks, envVal, hits, layers, pb, queue,
                  toolCallCounter, currentStep, toolCalls, toolResults, turns, message,
                  outcome, scriptedVal, runLog, fired, evalLog, last,
                  mockUI, ui, uiCalled,
                  sessOptions, fsDirs, fsHeld, harness, envPath, pis, piProcs, piLog, running >>

\* formatAction(action)
formatAction(action) ==
  IF action.type = "say" THEN <<"say">> \o action.text
  ELSE <<"call", action.toolName>> \o
       (IF action.params = "late" THEN <<"<late-bound>">>
        ELSE IF action.params = "undefined" THEN <<"undefined">>
        ELSE FixedParams.id)

\* remainingActions.slice(0, 5)
DisplayLimit == 5

\* formatPlaybookDiagnostic("remaining", state, remainingActions): the counts of
\* the "Consumed c of n" line, the listed actions, and the "+k more" line
formatPlaybookDiagnostic(state, remainingActions) ==
  LET n == Len(remainingActions)
      shown == IF n > DisplayLimit THEN DisplayLimit ELSE n
  IN [headline |-> "Playbook not fully consumed after run() completed.",
      consumed |-> state.consumed,
      total |-> state.consumed + n,
      listed |-> [k \in 1..shown |-> formatAction(remainingActions[k])],
      more |-> IF n > DisplayLimit THEN n - DisplayLimit ELSE 0]

\* the whole playbook taken for the remainder
RemainingActionsUnsliced(ts, consumed) == Flatten(ts)

\* turns.flatMap(t => t.actions).slice(state.consumed)
RemainingActions(ts, consumed) ==
  SubSeq(Flatten(ts), consumed + 1, Len(Flatten(ts)))

\* after the last turn: throw if state.remaining > 0
RunEnd ==
  /\ pc = "turnend"
  /\ turnIdx = Len(turns)
  /\ runLog' = Append(runLog,
       [turns |-> turns,
        result |-> IF State.remaining > 0 THEN "not fully consumed" ELSE "ok",
        diagnostic |-> IF State.remaining > 0
                       THEN Some(formatPlaybookDiagnostic(State, RemainingActions(turns, State.consumed)))
                       ELSE None,
        consumed |-> State.consumed, remaining |-> State.remaining])
  /\ pc' = "idle"
  /\ UNCHANGED << mockTools, propagateErrors, hooks, envVal, hits, layers, pb, queue,
                  toolCallCounter, currentStep, toolCalls, toolResults, turns, turnIdx,
                  message, outcome, scriptedVal, fired, evalLog, last,
                  mockUI, ui, uiCalled,
                  sessOptions, fsDirs, fsHeld, harness, envPath, pis, piProcs, piLog, running >>

Next ==
  \/ \E s \in Scripts : Script(s)
  \/ \E v \in EnvVals : TestSetVar(v)
  \/ RunStart
  \/ Prompt
  \/ StreamFnExhausted
  \/ StreamFn
  \/ ExecStart
  \/ \E real \in RealOutcomes : ExecUnwrapped(real)
  \/ \E real \in RealOutcomes : ExecWrapped(real)
  \/ \E callResult \in CallHookResults : MockBlocked(callResult)
  \/ \E resultHook \in ResultHookResults : MockExecute(resultHook)
  \/ ExecEnd
  \/ NextTurn
  \/ RunEnd

Spec == Init /\ [][Next]_vars

\* ------------------------------------------------- engines of other sessions
\* toolCallCounter is a variable of the playbook module: the engine of every
\* session in the process reads and writes the same one.

\* another session's run() constructs its engine: toolCallCounter = 0
OtherEngineCreate ==
  /\ toolCallCounter' = 0
  /\ UNCHANGED << mockTools, propagateErrors, hooks, envVal, hits, layers, pb, queue,
                  currentStep, toolCalls, toolResults, pc, turns, turnIdx, message,
                  outcome, scriptedVal, runLog, fired, evalLog, last,
                  mockUI, ui, uiCalled,
                  sessOptions, fsDirs, fsHeld, harness, envPath, pis, piProcs, piLog, running >>

\* another session's engine dequeues a Call: toolCallCounter++
OtherEngineCall ==
  /\ toolCallCounter < MaxSteps
  /\ toolCallCounter' = toolCallCounter + 1
  /\ UNCHANGED << mockTools, propagateErrors, hooks, envVal, hits, layers, pb, queue,
                  currentStep, toolCalls, toolResults, pc, turns, turnIdx, message,
                  outcome, scriptedVal, runLog, fired, evalLog, last,
                  mockUI, ui, uiCalled,
                  sessOptions, fsDirs, fsHeld, harness, envPath, pis, piProcs, piLog, running >>

\* a session whose tools are all mocked, with no extension handlers
InitEngines ==
  /\ Init
  /\ mockTools = Some([t \in ToolNames |-> IF t = "bash" THEN HResult ELSE HFunction])
  /\ hooks = {}
  /\ propagateErrors

NextEngines ==
  \/ \E s \in Scripts : Script(s)
  \/ \E v \in EnvVals : TestSetVar(v)
  \/ RunStart
  \/ Prompt
  \/ StreamFnExhausted
  \/ StreamFn
  \/ ExecStart
  \/ \E resultHook \in ResultHookResults : MockExecute(resultHook)
  \/ ExecEnd
  \/ NextTurn
  \/ RunEnd
  \/ OtherEngineCreate
  \/ OtherEngineCall

\* the session next to the engines of other sessions of the same process
SpecEngines == InitEngines /\ [][NextEngines]_vars

\* ----------------------------------------------------------------- mock UI
\* the computed handlers of the test
confirmHandler(title, msg) == title # "Delete?"
selectHandler(title, options) ==
  IF Len(options) = 0 THEN Undefined ELSE Str(options[Len(options)])
inputHandler(title, placeholder) == Str(placeholder \o "!")
editorHandler(title, prefill) == Str(title \o prefill)

\* options[i], 0-based; undefined outside the array
OptionAt(options, i) == IF i + 1 \in 1..Len(options) THEN Str(options[i + 1]) ELSE Undefined

\* options.find(o => o === x) ?? options[0]
FindOption(options, x) ==
  IF \E k \in 1..Len(options) : options[k] = x THEN Str(x) ELSE OptionAt(options, 0)

\* what mockUI.select(title, options) resolves to
selectResult(handler, title, options) ==
  IF handler.kind = "undefined" THEN OptionAt(options, 0)
  ELSE IF handler.kind = "number" THEN OptionAt(options, handler.num)
  ELSE IF handler.kind = "string" THEN FindOption(options, handler.str)
  ELSE IF handler.kind = "function" THEN selectHandler(title, options)
  ELSE Undefined

\* what mockUI.confirm(title, message) resolves to
confirmResult(handler, title, msg) ==
  IF handler.kind = "undefined" THEN Bool(TRUE)
  ELSE IF handler.kind = "boolean" THEN Bool(handler.bool)
  ELSE IF handler.kind = "function" THEN Bool(confirmHandler(title, msg))
  ELSE Bool(TRUE)

\* what mockUI.input(title, placeholder) resolves to
inputResult(handler, title, placeholder) ==
  IF handler.kind = "undefined" THEN Str("")
  ELSE IF handler.kind = "string" THEN Str(handler.str)
  ELSE IF handler.kind = "function" THEN inputHandler(title, placeholder)
  ELSE Undefined

\* mockUI.editor with a configured string taken for the default
editorResultIgnoringStatic(handler, title, prefill) ==
  IF handler.kind = "function" THEN editorHandler(title, prefill) ELSE Str("")

\* what mockUI.editor(title, prefill) resolves to
editorResult(handler, title, prefill) ==
  IF handler.kind = "undefined" THEN Str("")
  ELSE IF handler.kind = "string" THEN Str(handler.str)
  ELSE IF handler.kind = "function" THEN editorHandler(title, prefill)
  ELSE Undefined

\* record(method, args, returnValue): uiLog.push({ method, args, returnValue })
uiRecord(log, method, args, returnValue) ==
  Append(log, [method |-> method, args |-> args, returnValue |-> returnValue])

\* the methods of the mock UI besides the four interactive ones that extensions
\* call to interact, and those of them whose body calls record()
OtherUIMethods ==
  {"notify", "setStatus", "setWorkingMessage", "setWidget", "setFooter", "setHeader",
   "setTitle", "custom", "pasteToEditor", "setEditorText"}
RecordingUIMethods == {"notify", "setStatus", "setWorkingMessage", "setWidget", "setTitle"}

\* a UI method was invoked with args and returned a value, leaving the log as log
UICalled(method, args, returned, log) ==
  /\ Len(uiCalled) < MaxUICalls
  /\ uiCalled' = Append(uiCalled, [method |-> method, args |-> args, returned |-> returned])
  /\ ui' = log
  /\ UNCHANGED << mockTools, propagateErrors, hooks, envVal, hits, layers, pb, queue,
                  toolCallCounter, currentStep, toolCalls, toolResults, pc, turns,
                  turnIdx, message, outcome, scriptedVal, runLog, fired, evalLog, last,
                  mockUI,
                  sessOptions, fsDirs, fsHeld, harness, envPath, pis, piProcs, piLog, running >>

\* mockUI.select(title, options)
UISelect(title, options) ==
  LET result == selectResult(mockUI.select, title, options)
      args == UIArgs(title, "", options)
  IN UICalled("select", args, result, uiRecord(ui, "select", args, result))

\* mockUI.confirm(title, message)
UIConfirm(title, msg) ==
  LET result == confirmResult(mockUI.confirm, title, msg)
      args == UIArgs(title, msg, <<>>)
  IN UICalled("confirm", args, result, uiRecord(ui, "confirm", args, result))

\* mockUI.input(title, placeholder)
UIInput(title, placeholder) ==
  LET result == inputResult(mockUI.input, title, placeholder)
      args == UIArgs(title, placeholder, <<>>)
  IN UICalled("input", args, result, uiRecord(ui, "input", args, result))

\* mockUI.editor(title, prefill)
UIEditor(title, prefill) ==
  LET result == editorResult(mockUI.editor, title, prefill)
      args == UIArgs(title, prefill, <<>>)
  IN UICalled("editor", args, result, uiRecord(ui, "editor", args, result))

\* notify, setStatus, setWorkingMessage, setWidget, setTitle record the call;
\* setFooter, setHeader, custom, pasteToEditor, setEditorText have empty bodies
UIOther(method) ==
  LET args == UIArgs("x", "", <<>>)
  IN UICalled(method, args, Undefined,
              IF method \in RecordingUIMethods THEN uiRecord(ui, method, args, Undefined) ELSE ui)

\* createMockUIContext(config, events.ui)
InitUI ==
  /\ mockTools = None
  /\ propagateErrors = TRUE
  /\ hooks = {}
  /\ envVal = <<>>
  /\ hits = [t \in ToolNames |-> 0]
  /\ layers = <<>>
  /\ pb = <<>>
  /\ queue = <<>>
  /\ toolCallCounter = 0
  /\ currentStep = 0
  /\ toolCalls = <<>>
  /\ toolResults = <<>>
  /\ pc = "idle"
  /\ turns = <<>>
  /\ turnIdx = 0
  /\ message = NoMessage
  /\ outcome = NoOutcome
  /\ scriptedVal = <<>>
  /\ runLog = <<>>
  /\ fired = <<>>
  /\ evalLog = <<>>
  /\ last = NoLast
  /\ mockUI \in MockUIConfigs
  /\ ui = <<>>
  /\ uiCalled = <<>>
  /\ running = {}
  /\ SetupDone
  /\ NoMockPi

NextUI ==
  \/ \E title \in UITitles : \E options \in UIOptionLists : UISelect(title, options)
  \/ \E title \in UITitles : UIConfirm(title, "sure?")
  \/ \E title \in UITitles : UIInput(title, "name")
  \/ \E title \in UITitles : UIEditor(title, "draft")
  \/ \E method \in OtherUIMethods : UIOther(method)

\* extensions calling the methods of the mock UI of a session
SpecUI == InitUI /\ [][NextUI]_vars

\* ------------------------------------------------------ setup and dispose
\* what the extension loader can report: no error, one, or two
ExtensionErrorLists ==
  { <<>>, <<"a.ts: boom">>, <<"a.ts: boom", "b.ts: missing">> }

\* the error of fs.rmSync on a directory with a file held open
RmError == <<"EBUSY">>

\* fs.rmSync(dir, { recursive: true, force: true }) throws when a file in dir is
\* held open by another subsystem, and removes dir otherwise
rmSyncThrows(dir) == dir \in fsHeld
rmSync(dirs, dir) == IF dir \in fsHeld THEN dirs ELSE dirs \ {dir}

\* the message of the error for extension load errors
ExtensionLoadError(errors) == <<"Extension load errors:">> \o errors

\* createTestSession up to createAgentSession: the working directory exists,
\* the loader has run the extensions, the runtime session is created
CreateSession ==
  /\ harness.phase = "none"
  /\ LET ownsTmpDir == ~sessOptions.cwdGiven
         cwd == IF sessOptions.cwdGiven THEN CallerDir ELSE TmpDir
     IN /\ fsDirs' = fsDirs \cup {cwd}
        /\ harness' = [harness EXCEPT !.phase = "created", !.ownsTmpDir = ownsTmpDir,
                                      !.cwd = cwd]
  /\ UNCHANGED << sessOptions, fsHeld, sessionVars, piVars >>

\* an extension opens a file in the working directory and keeps it open
ExtensionHoldsFile ==
  /\ harness.phase \in {"created", "ready"}
  /\ harness.cwd \notin fsHeld
  /\ fsHeld' = fsHeld \cup {harness.cwd}
  /\ UNCHANGED << sessOptions, fsDirs, harness, sessionVars, piVars >>

\* createTestSession after createAgentSession, with extension load errors:
\* dispose the runtime session, remove the owned directory, throw
SetupFails ==
  /\ harness.phase = "created"
  /\ Len(sessOptions.extensionErrors) > 0
  /\ LET removes == harness.ownsTmpDir /\ harness.cwd \in fsDirs
     IN /\ fsDirs' = IF removes THEN rmSync(fsDirs, harness.cwd) ELSE fsDirs
        /\ harness' = [harness EXCEPT
               !.phase = "failed",
               !.runtimeDisposals = @ + 1,
               !.setupError = IF removes /\ rmSyncThrows(harness.cwd) THEN Some(RmError)
                              ELSE Some(ExtensionLoadError(sessOptions.extensionErrors))]
  /\ UNCHANGED << sessOptions, fsHeld, sessionVars, piVars >>

\* createTestSession after createAgentSession, without errors: subscribe to the
\* events, bind the mock UI, return the session
SetupSucceeds ==
  /\ harness.phase = "created"
  /\ Len(sessOptions.extensionErrors) = 0
  /\ harness' = [harness EXCEPT !.phase = "ready", !.subscribed = TRUE, !.uiBound = TRUE]
  /\ UNCHANGED << sessOptions, fsDirs, fsHeld, sessionVars, piVars >>

\* run() on the session createTestSession returned
SessionRun ==
  /\ harness.phase \in {"ready", "disposed"}
  /\ harness.runs < MaxRuns
  /\ harness' = [harness EXCEPT !.runs = @ + 1]
  /\ UNCHANGED << sessOptions, fsDirs, fsHeld, sessionVars, piVars >>

\* dispose() that removes the working directory whoever created it
DisposeRemovingAnyDir ==
  /\ harness.phase \in {"ready", "disposed"}
  /\ harness.disposals < MaxDisposals
  /\ fsDirs' = rmSync(fsDirs, harness.cwd)
  /\ harness' = [harness EXCEPT !.phase = "disposed", !.runtimeDisposals = @ + 1,
                                !.disposals = @ + 1]
  /\ UNCHANGED << sessOptions, fsHeld, sessionVars, piVars >>

\* dispose(): session.dispose(), then remove the owned directory if it exists
Dispose ==
  /\ harness.phase \in {"ready", "disposed"}
  /\ harness.disposals < MaxDisposals
  /\ LET removes == harness.ownsTmpDir /\ harness.cwd \in fsDirs
     IN /\ fsDirs' = IF removes THEN rmSync(fsDirs, harness.cwd) ELSE fsDirs
        /\ harness' = [harness EXCEPT
               !.phase = "disposed",
               !.runtimeDisposals = @ + 1,
               !.disposals = @ + 1,
               !.disposeError = IF removes /\ rmSyncThrows(harness.cwd) THEN Some(RmError)
                                ELSE None]
  /\ UNCHANGED << sessOptions, fsHeld, sessionVars, piVars >>

\* before createTestSession(options): the caller's directory may exist already
InitSetup ==
  /\ mockTools = None
  /\ propagateErrors = TRUE
  /\ hooks = {}
  /\ envVal = <<>>
  /\ hits = [t \in ToolNames |-> 0]
  /\ layers = <<>>
  /\ pb = <<>>
  /\ queue = <<>>
  /\ toolCallCounter = 0
  /\ currentStep = 0
  /\ toolCalls = <<>>
  /\ toolResults = <<>>
  /\ pc = "idle"
  /\ turns = <<>>
  /\ turnIdx = 0
  /\ message = NoMessage
  /\ outcome = NoOutcome
  /\ scriptedVal = <<>>
  /\ runLog = <<>>
  /\ fired = <<>>
  /\ evalLog = <<>>
  /\ last = NoLast
  /\ mockUI = NoUIConfig
  /\ ui = <<>>
  /\ uiCalled = <<>>
  /\ running = {}
  /\ sessOptions \in [cwdGiven : BOOLEAN, extensionErrors : ExtensionErrorLists]
  /\ fsDirs \in {{}, {CallerDir}}
  /\ fsHeld \in SUBSET fsDirs
  /\ harness = NoHarness
  /\ NoMockPi

NextSetup ==
  \/ CreateSession
  \/ ExtensionHoldsFile
  \/ SetupFails
  \/ SetupSucceeds
  \/ SessionRun
  \/ Dispose

\* createTestSession and dispose of one session
SpecSetup == InitSetup /\ [][NextSetup]_vars

\* ----------------------------------------------------------------- mock pi
\* VALID_MOCK_PI_CALL_KEYS
VALID_MOCK_PI_CALL_KEYS == {"output", "exitCode", "stderr", "delay", "jsonl", "writeFiles"}

\* MockPiCall descriptors: the keys of the object, its output and its exitCode
Descriptor(keys, output, exitCode) == [keys |-> keys, output |-> output, exitCode |-> exitCode]
NoDescriptor == Descriptor({}, None, None)
PiDescriptors ==
  { Descriptor({"output"}, Some(<<"r1">>), None),
    Descriptor({"stderr", "exitCode"}, None, Some(1)),
    Descriptor({}, None, None),
    Descriptor({"ouptut", "exitCode"}, None, Some(1)) }

\* the task texts the pi CLI is spawned with
PiTasks == { <<"Task:", "hello">> }

\* task.replace(/^Task:\s*/i, "")
taskClean(task) == IF Len(task) > 0 /\ task[1] = "Task:" THEN Tail(task) ELSE task

\* createMockPi(): the directory with queue.json = [] and counter = 0
createMockPi(dir) ==
  [dir |-> dir, dirExists |-> TRUE, installed |-> FALSE, originalPath |-> None,
   queue |-> <<>>, counter |-> 0]

\* the directories of the mock pi instances of the test
PiDirs == [k \in 1..MaxPis |-> <<"pi-mock", k>>]

\* Math.min(counter, queue.length - 1), counted from 1; 0 for an empty queue
piIndex(q, counter) ==
  IF Len(q) = 0 THEN 0 ELSE (IF counter < Len(q) - 1 THEN counter ELSE Len(q) - 1) + 1

\* the entry the script would select if the queue started over after its end
piEntryCycling(q, counter) ==
  IF Len(q) = 0 THEN None ELSE Some(q[(counter % Len(q)) + 1])

\* the entry the script selects: queue[min(counter, length - 1)], null if empty
piEntry(q, counter) ==
  IF Len(q) = 0 THEN None ELSE Some(q[piIndex(q, counter)])

\* what the script prints and exits with for an entry and a task
piResult(entry, task) ==
  [output |-> IF IsSome(entry) /\ IsSome(Get(entry).output) THEN Get(Get(entry).output)
              ELSE <<"Mock output for:">> \o taskClean(task),
   exitCode |-> IF IsSome(entry) /\ IsSome(Get(entry).exitCode) THEN Get(Get(entry).exitCode)
                ELSE 0]
NoPiResult == [output |-> <<>>, exitCode |-> 0]

\* ghost: one entry of the history of the mock pi instances
PiEvent(kind, inst, response, threw, result, overlapped) ==
  [kind |-> kind, inst |-> inst, response |-> response, threw |-> threw,
   result |-> result, overlapped |-> overlapped, unknown |-> {}, index |-> 0]

\* ghost: the running pi processes of instance i, marked as having run while
\* another process or the test wrote the files of the instance
Overlap(procs, i) ==
  { IF p.inst = i THEN [p EXCEPT !.overlapped = TRUE] ELSE p : p \in procs }

\* install(): nothing if installed; else remember PATH, write the shim and
\* prepend the directory to PATH
PiInstall(i) ==
  /\ i \in 1..Len(pis)
  /\ IF pis[i].installed
     THEN UNCHANGED << envPath, pis >>
     ELSE IF pis[i].dirExists
     THEN /\ envPath' = <<pis[i].dir>> \o envPath
          /\ pis' = [pis EXCEPT ![i].originalPath = Some(envPath), ![i].installed = TRUE]
     ELSE \* writeFileSync of the shim throws after originalPath was assigned
          /\ envPath' = envPath
          /\ pis' = [pis EXCEPT ![i].originalPath = Some(envPath)]
  /\ UNCHANGED << piProcs, piLog, sessionVars, setupVars >>

\* uninstall(): nothing if not installed; else restore PATH to originalPath
\* and remove the directory
PiUninstall(i) ==
  /\ i \in 1..Len(pis)
  /\ IF ~pis[i].installed
     THEN UNCHANGED << envPath, pis >>
     ELSE /\ envPath' = IF IsSome(pis[i].originalPath) THEN Get(pis[i].originalPath)
                        ELSE envPath
          /\ pis' = [pis EXCEPT ![i].originalPath = None, ![i].installed = FALSE,
                                ![i].dirExists = FALSE]
  /\ UNCHANGED << piProcs, piLog, sessionVars, setupVars >>

\* onCall(response) as it would be without the validation of the keys
PiOnCallUnchecked(i, response) ==
  /\ i \in 1..Len(pis)
  /\ pis[i].dirExists
  /\ Len(piLog) < MaxPiEvents
  /\ piLog' = Append(piLog, PiEvent("onCall", i, response, FALSE, NoPiResult, FALSE))
  /\ pis' = [pis EXCEPT ![i].queue = Append(@, response)]
  /\ piProcs' = Overlap(piProcs, i)
  /\ UNCHANGED << envPath, sessionVars, setupVars >>

\* onCall(response): validate the keys, then append to queue.json
PiOnCall(i, response) ==
  /\ i \in 1..Len(pis)
  /\ pis[i].dirExists
  /\ Len(piLog) < MaxPiEvents
  /\ LET unknown == response.keys \ VALID_MOCK_PI_CALL_KEYS
     IN IF unknown # {}
        THEN \* throw new Error("Unknown MockPiCall key(s): " + unknown)
             /\ piLog' = Append(piLog, [PiEvent("onCall", i, response, TRUE, NoPiResult, FALSE)
                                          EXCEPT !.unknown = unknown])
             /\ pis' = pis
        ELSE /\ piLog' = Append(piLog, PiEvent("onCall", i, response, FALSE, NoPiResult, FALSE))
             /\ pis' = [pis EXCEPT ![i].queue = Append(@, response)]
  /\ piProcs' = Overlap(piProcs, i)
  /\ UNCHANGED << envPath, sessionVars, setupVars >>

\* reset(): queue.json = [], counter = 0
PiReset(i) ==
  /\ i \in 1..Len(pis)
  /\ pis[i].dirExists
  /\ Len(piLog) < MaxPiEvents
  /\ pis' = [pis EXCEPT ![i].queue = <<>>, ![i].counter = 0]
  /\ piLog' = Append(piLog, PiEvent("reset", i, NoDescriptor, FALSE, NoPiResult, FALSE))
  /\ piProcs' = Overlap(piProcs, i)
  /\ UNCHANGED << envPath, sessionVars, setupVars >>

\* callCount(): the counter file, 0 if it cannot be read
callCount(i) == IF pis[i].dirExists THEN pis[i].counter ELSE 0

\* the instance spawn("pi") resolves to: the first directory of PATH with a shim
PiOnPath(i) ==
  /\ i \in 1..Len(pis)
  /\ pis[i].installed /\ pis[i].dirExists
  /\ \E k \in 1..Len(envPath) :
       /\ envPath[k] = pis[i].dir
       /\ \A j \in 1..(k - 1) :
            ~\E o \in 1..Len(pis) : pis[o].dir = envPath[j] /\ pis[o].installed /\ pis[o].dirExists

\* a pi process starts: it reads queue.json and counter
PiInvokeRead(i, task) ==
  /\ PiOnPath(i)
  /\ Len(piLog) + Cardinality(piProcs) < MaxPiEvents
  /\ Cardinality(piProcs) < MaxPiProcs
  /\ piProcs' = Overlap(piProcs, i)
                 \cup { [inst |-> i, task |-> task, queue |-> pis[i].queue,
                         counter |-> pis[i].counter,
                         overlapped |-> \E p \in piProcs : p.inst = i,
                         pid |-> CHOOSE n \in 1..MaxPiProcs :
                                   ~\E p \in piProcs : p.pid = n] }
  /\ UNCHANGED << envPath, pis, piLog, sessionVars, setupVars >>

\* the pi process writes counter + 1, answers with the selected entry and exits
PiInvokeWrite(p) ==
  /\ p \in piProcs
  /\ pis[p.inst].dirExists
  /\ pis' = [pis EXCEPT ![p.inst].counter = p.counter + 1]
  /\ piProcs' = piProcs \ {p}
  /\ piLog' = Append(piLog, [PiEvent("invoke", p.inst, NoDescriptor, FALSE,
                                     piResult(piEntry(p.queue, p.counter), p.task),
                                     p.overlapped)
                              EXCEPT !.index = piIndex(p.queue, p.counter)])
  /\ UNCHANGED << envPath, sessionVars, setupVars >>

\* the pi process finds its queue directory removed and fails
PiInvokeCrash(p) ==
  /\ p \in piProcs
  /\ ~pis[p.inst].dirExists
  /\ piProcs' = piProcs \ {p}
  /\ piLog' = Append(piLog, PiEvent("crash", p.inst, NoDescriptor, TRUE, NoPiResult, p.overlapped))
  /\ UNCHANGED << envPath, pis, sessionVars, setupVars >>

\* n mock pi instances created, none installed
PisCreated(n) ==
  /\ mockTools = None
  /\ propagateErrors = TRUE
  /\ hooks = {}
  /\ envVal = <<>>
  /\ hits = [t \in ToolNames |-> 0]
  /\ layers = <<>>
  /\ pb = <<>>
  /\ queue = <<>>
  /\ toolCallCounter = 0
  /\ currentStep = 0
  /\ toolCalls = <<>>
  /\ toolResults = <<>>
  /\ pc = "idle"
  /\ turns = <<>>
  /\ turnIdx = 0
  /\ message = NoMessage
  /\ outcome = NoOutcome
  /\ scriptedVal = <<>>
  /\ runLog = <<>>
  /\ fired = <<>>
  /\ evalLog = <<>>
  /\ last = NoLast
  /\ mockUI = NoUIConfig
  /\ ui = <<>>
  /\ uiCalled = <<>>
  /\ running = {}
  /\ SetupDone
  /\ envPath = SystemPath
  /\ pis = [k \in 1..n |-> createMockPi(PiDirs[k])]
  /\ piProcs = {}
  /\ piLog = <<>>

InitPi == PisCreated(1)

NextPi ==
  \/ \E i \in 1..Len(pis) : PiInstall(i)
  \/ \E i \in 1..Len(pis) : PiUninstall(i)
  \/ \E i \in 1..Len(pis) : \E response \in PiDescriptors : PiOnCall(i, response)
  \/ \E i \in 1..Len(pis) : PiReset(i)
  \/ \E i \in 1..Len(pis) : \E task \in PiTasks : PiInvokeRead(i, task)
  \/ \E p \in piProcs : PiInvokeWrite(p)
  \/ \E p \in piProcs : PiInvokeCrash(p)

\* the test, one mock pi instance and the pi processes the extension spawns
SpecPi == InitPi /\ [][NextPi]_vars

InitPiPath == PisCreated(MaxPis)

NextPiPath ==
  \/ \E i \in 1..Len(pis) : PiInstall(i)
  \/ \E i \in 1..Len(pis) : PiUninstall(i)

\* several mock pi instances installed and uninstalled in any order
SpecPiPath == InitPiPath /\ [][NextPiPath]_vars

\* ------------------------------------- the generation function on any playbook
\* playbooks, those with a producer that throws included
GenScripts ==
  Scripts
  \cup { <<when("p1", <<calls(t, "throws"), says(<<"done">>)>>)>> : t \in ToolNames }
  \cup { <<when("p1", <<calls("bash", "fixed"), calls("counter", "throws"),
                        says(<<"done">>)>>)>> }

\* streamFn when params() throws inside createAssistantMessage: the action is
\* dequeued and counted, no stream is returned
StreamFnThrows ==
  /\ pc = "gen"
  /\ queue # <<>>
  /\ producerThrows(Head(queue))
  /\ queue' = Tail(queue)
  /\ toolCallCounter' = toolCallCounter + 1
  /\ pb' = [pb EXCEPT ![CurRun] =
              [consumed |-> @.consumed + 1,
               remaining |-> Len(queue) - 1,
               consumedActions |-> Append(@.consumedActions, Head(queue)),
               pendingCallbacks |-> @.pendingCallbacks]]
  /\ pc' = "genthrew"
  /\ UNCHANGED << mockTools, propagateErrors, hooks, envVal, hits, layers,
                  currentStep, toolCalls, toolResults, turns, turnIdx, message, outcome,
                  scriptedVal, runLog, fired, evalLog, last,
                  mockUI, ui, uiCalled, running, setupVars, piVars >>

\* the runtime calls the generation function again
GenAgain ==
  /\ pc \in {"toolstart", "turnend", "genthrew"}
  /\ pc' = "gen"
  /\ UNCHANGED << mockTools, propagateErrors, hooks, envVal, hits, layers, pb, queue,
                  toolCallCounter, currentStep, toolCalls, toolResults, turns, turnIdx,
                  message, outcome, scriptedVal, runLog, fired, evalLog, last,
                  mockUI, ui, uiCalled, running, setupVars, piVars >>

InitGen == PisCreated(0)

NextGen ==
  \/ \E s \in GenScripts : Script(s)
  \/ \E v \in EnvVals : TestSetVar(v)
  \/ RunStart
  \/ Prompt
  \/ StreamFnExhausted
  \/ StreamFn
  \/ StreamFnThrows
  \/ GenAgain

\* one engine whose generation function the runtime calls any number of times
SpecGen == InitGen /\ [][NextGen]_vars

\* ------------------------------------------ the subscriber on any events
\* how an execution the runtime reports can have ended
EventOutcomes ==
     { Returned([content |-> <<TextItem(<<"ok">>)>>, details |-> None, isError |-> None]) }
  \cup { Threw(PlainError(m)) : m \in ErrorMessages \cup {DefaultBlockReason} }

\* the runtime reports the start of an execution of tool t
EventsStart(t) ==
  /\ Len(toolCalls) < MaxEvents
  /\ toolCalls' = onExecutionStart(toolCalls, currentStep, t, NoParams)
  /\ running' = running \cup {Len(toolCalls) + 1}
  /\ UNCHANGED << mockTools, propagateErrors, hooks, envVal, hits, layers, pb, queue,
                  toolCallCounter, currentStep, toolResults, pc, turns, turnIdx, message,
                  outcome, scriptedVal, runLog, fired, evalLog, last,
                  mockUI, ui, uiCalled, setupVars, piVars >>

\* the runtime reports the end of the execution started as record k
EventsEnd(k, out) ==
  /\ k \in running
  /\ out \in EventOutcomes
  /\ last' = [NoLast EXCEPT !.tool = toolCalls[k].toolName, !.idx = k]
  /\ outcome' = out
  /\ toolCalls' = onExecutionEnd(toolCalls, EndEventOf(toolCalls[k].toolName, out))
  /\ running' = running \ {k}
  /\ UNCHANGED << mockTools, propagateErrors, hooks, envVal, hits, layers, pb, queue,
                  toolCallCounter, currentStep, toolResults, pc, turns, turnIdx, message,
                  scriptedVal, runLog, fired, evalLog,
                  mockUI, ui, uiCalled, setupVars, piVars >>

\* a session that is set up, before any event
InitEvents == PisCreated(0)

NextEvents ==
  \/ \E t \in ToolNames : EventsStart(t)
  \/ \E k \in running : \E out \in EventOutcomes : EventsEnd(k, out)

\* the subscriber under executions the runtime starts and ends in any order
SpecEvents == InitEvents /\ [][NextEvents]_vars

\* ------------------------------------------ fireThenCallback on any inputs
\* the keys a callback can be registered under (a call id, or the tool name),
\* and the ids and tool names of the invocations that fire; one tool is named
\* like a call id
PendingKeys == {"playbook-tc-1", "bash"}
FireIds == {"playbook-tc-1", "playbook-tc-2"}
FireNames == {"bash", "playbook-tc-1"}

\* one PlaybookState with no callback pending
InitFire ==
  /\ mockTools = None
  /\ propagateErrors = TRUE
  /\ hooks = {}
  /\ envVal = <<>>
  /\ hits = [t \in ToolNames |-> 0]
  /\ layers = <<>>
  /\ pb = <<NewPlaybookState(<<>>)>>
  /\ queue = <<>>
  /\ toolCallCounter = 0
  /\ currentStep = 0
  /\ toolCalls = <<>>
  /\ toolResults = <<>>
  /\ pc = "exec"
  /\ turns = <<>>
  /\ turnIdx = 0
  /\ message = NoMessage
  /\ outcome = NoOutcome
  /\ scriptedVal = <<>>
  /\ runLog = <<>>
  /\ fired = <<>>
  /\ evalLog = <<>>
  /\ last = NoLast
  /\ mockUI = NoUIConfig
  /\ ui = <<>>
  /\ uiCalled = <<>>
  /\ running = {}
  /\ SetupDone
  /\ NoMockPi

\* state.pendingCallbacks.set(key, callback), each time a new callback
RegisterCallback(key) ==
  /\ toolCallCounter < MaxSteps
  /\ toolCallCounter' = toolCallCounter + 1
  /\ pb' = [pb EXCEPT ![1].pendingCallbacks =
              MapSet(@, key, [run |-> 1, idx |-> toolCallCounter + 1, kind |-> "capture"])]
  /\ UNCHANGED << mockTools, propagateErrors, hooks, envVal, hits, layers, queue,
                  currentStep, toolCalls, toolResults, pc, turns, turnIdx, message,
                  outcome, scriptedVal, runLog, fired, evalLog, last,
                  mockUI, ui, uiCalled,
                  sessOptions, fsDirs, fsHeld, harness, envPath, pis, piProcs, piLog, running >>

\* toolResults.push(record); fireThenCallback(state, toolCallId, record)
FireCallback(toolCallId, toolName) ==
  /\ Len(toolResults) < MaxSteps
  /\ LET record == [step |-> pb[1].consumed, toolName |-> toolName, toolCallId |-> toolCallId,
                    text |-> <<toolName>>, content |-> <<TextItem(<<toolName>>)>>,
                    isError |-> FALSE, details |-> None, mocked |-> TRUE]
         ctx == RecordAndFire(Ctx0, 1, record)
     IN /\ pb' = ctx.pb
        /\ envVal' = ctx.envVal
        /\ fired' = ctx.fired
        /\ toolResults' = ctx.toolResults
  /\ UNCHANGED << mockTools, propagateErrors, hooks, hits, layers, queue, toolCallCounter,
                  currentStep, toolCalls, pc, turns, turnIdx, message,
                  outcome, scriptedVal, runLog, evalLog, last,
                  mockUI, ui, uiCalled,
                  sessOptions, fsDirs, fsHeld, harness, envPath, pis, piProcs, piLog, running >>

NextFire ==
  \/ \E key \in PendingKeys : RegisterCallback(key)
  \/ \E id \in FireIds : \E name \in FireNames : FireCallback(id, name)

\* fireThenCallback applied to every pending map and every invocation
SpecFire == InitFire /\ [][NextFire]_vars

\* ------------------------------------------------------------ properties
\* the tool names of the Call actions of a playbook, in script order
CallsOf(ts) == SelectSeq(Flatten(ts), LAMBDA a : a.type = "call")

\* the playbook scripts exactly one Call, to tool t
OneCallTo(ts, t) == Len(CallsOf(ts)) = 1 /\ CallsOf(ts)[1].toolName = t

\* the action of run r at flattened position i
ActionAt(r, i) == pb[r].consumedActions[i]

\* the invocations of completion callback (r, i)
FiredOf(r, i) == SelectSeq(fired, LAMBDA f : f.cb.run = r /\ f.cb.idx = i)

\* the tool invocation of action (r, i) has reached its outcome
Invoked(r, i) ==
  /\ r \in 1..Len(pb)
  /\ i \in 1..pb[r].consumed
  /\ ActionAt(r, i).type = "call"
  /\ ~(r = CurRun /\ i = pb[r].consumed /\ pc \in {"toolstart", "exec"})

\* the last tool invocation has reached its outcome and is the one `last` and
\* `outcome` describe
AtOutcome == pc = "toolend"

\* the records the last invocation appended
NewRecords == SubSeq(toolResults, last.recordsBefore + 1, Len(toolResults))

\* the text a block carries: the hook's reason, or the default message
BlockText(hook) == IF hook = None THEN DefaultBlockReason ELSE Get(hook)

\* C1: in a session created with mockTools, after two run() calls that each
\* scripted exactly one Call to the same tool t and consumed their playbook,
\* with no call failing, events.toolResults holds exactly 2 records for t, and
\* the real execute of an unmocked t ran exactly twice.
C1_TwoRunsTwoRecords ==
  \A t \in ToolNames :
    ( /\ IsSome(mockTools)
      /\ pc = "idle"
      /\ Len(runLog) = 2
      /\ \A r \in {1, 2} : runLog[r].result = "ok" /\ OneCallTo(runLog[r].turns, t)
      /\ \A i \in 1..Len(toolResults) : ~toolResults[i].isError )
    => /\ Len(toolResultsFor(t)) = 2
       /\ ~IsMocked(t) => hits[t] = 2

\* C2: in a session created without mockTools, the first Call to a real tool
\* that succeeds leaves exactly one record for that tool, with mocked = false
\* and the text of the real result, and the real tool has executed once.
C2_RecordWithoutMockTools ==
  ( /\ ~IsSome(mockTools)
    /\ AtOutcome
    /\ Len(toolCalls) = 1
    /\ last.truth = "ok" )
  => /\ Len(toolResultsFor(last.tool)) = 1
     /\ ~toolResultsFor(last.tool)[1].mocked
     /\ toolResultsFor(last.tool)[1].text = ContentText(outcome.result.content)
     /\ hits[last.tool] = 1

\* C3: every scripted Call with a completion callback whose invocation reached
\* an outcome has had its callback invoked exactly once, with the record of
\* that invocation (same call id and tool name), and the callback is no longer
\* in the pending map; in every configuration and every run.
C3_CallbackExactlyOnce ==
  \A r \in 1..Len(pb) : \A i \in 1..pb[r].consumed :
    ( Invoked(r, i) /\ ActionAt(r, i).thenCallback # "none" )
    => /\ Len(FiredOf(r, i)) = 1
       /\ FiredOf(r, i)[1].record.toolName = ActionAt(r, i).toolName
       /\ \E k \in 1..Len(toolResults) :
            /\ toolResults[k] = FiredOf(r, i)[1].record
            /\ toolResults[k].toolCallId \notin DOMAIN pb[r].pendingCallbacks
            /\ (r = last.run /\ i = last.idx) => toolResults[k].toolCallId = last.id

\* C3 holds in the sessions created with mockTools
C3_CallbackExactlyOnceIntercepted == IsSome(mockTools) => C3_CallbackExactlyOnce

\* C4: when a late-bound Call directly follows a Call with a completion
\* callback, that callback has fired before the producer is evaluated, and the
\* value the producer returns is the one the callback wrote.
C4_CallbackBeforeLateParams ==
  \A e \in 1..Len(evalLog) :
    LET r == evalLog[e].run
        i == evalLog[e].idx
    IN ( i > 1 /\ ActionAt(r, i - 1).type = "call" /\ ActionAt(r, i - 1).thenCallback = "capture" )
       => /\ Len(FiredOf(r, i - 1)) = 1
          /\ evalLog[e].value = FiredOf(r, i - 1)[1].record.text

\* C4 holds in the sessions created with mockTools
C4_CallbackBeforeLateParamsIntercepted == IsSome(mockTools) => C4_CallbackBeforeLateParams

\* C5: a late-bound Call's producer is evaluated when the action is dequeued:
\* the arguments of the emitted tool call are the producer's value at that
\* moment, and that dequeue evaluated the producer exactly once.
C5_LateBoundAtDequeue ==
  ( pc = "toolstart" /\ ActionAt(CurRun, State.consumed).params = "late" )
  => /\ message.arguments = Producer(envVal)
     /\ Len(evalLog) > 0
     /\ evalLog[Len(evalLog)] = [run |-> CurRun, idx |-> State.consumed, value |-> envVal]
     /\ Len(SelectSeq(evalLog, LAMBDA e : e.run = CurRun /\ e.idx = State.consumed)) = 1

\* C5 witness: a late-bound call is dequeued in a second run, after the value
\* changed since scripting, and an earlier dequeue had evaluated another value
C5_Witness ==
  /\ pc = "toolstart"
  /\ ActionAt(CurRun, State.consumed).params = "late"
  /\ envVal # scriptedVal
  /\ message.arguments.id = envVal
  /\ Len(evalLog) = 2
  /\ evalLog[1].value # evalLog[2].value

\* C6: when the tool_call hooks block a mocked tool, exactly one record is
\* appended (isError, mocked, text = the reason or the default message), the
\* pending callback of the call is fired with that record, the mock handler is
\* not invoked, no tool_result event is emitted, and the invocation throws an
\* error carrying the reason.
C6_MockBlockRecorded ==
  ( AtOutcome /\ last.path = "mock" /\ last.truth = "block" )
  => /\ Len(NewRecords) = 1
     /\ NewRecords[1].isError
     /\ NewRecords[1].mocked
     /\ NewRecords[1].text = BlockText(last.hook)
     /\ NewRecords[1].toolName = last.tool
     /\ NewRecords[1].toolCallId = last.id
     /\ last.handlerCalls = 0
     /\ last.resultHookEmits = 0
     /\ outcome.kind = "throw"
     /\ Get(outcome.err).message = BlockText(last.hook)
     /\ last.id \notin DOMAIN State.pendingCallbacks
     /\ IF ActionAt(last.run, last.idx).thenCallback # "none"
        THEN /\ Len(fired) = last.firedBefore + 1
             /\ fired[Len(fired)].record = NewRecords[1]
             /\ fired[Len(fired)].cb.idx = last.idx
             /\ fired[Len(fired)].cb.run = last.run
        ELSE Len(fired) = last.firedBefore

\* C6 witness: a blocked mocked call with a completion callback and a reason
C6_Witness ==
  /\ AtOutcome /\ last.path = "mock" /\ last.truth = "block"
  /\ last.hook # None
  /\ ActionAt(last.run, last.idx).thenCallback = "capture"
  /\ envVal = Get(last.hook)

\* C7: a block is classified as blocked on both paths: it is recorded as an
\* error record whose text is the block reason, and under propagateErrors =
\* true the invocation raises the block's own error, not a test failure.
C7_BlocksNeverTestFailures ==
  ( AtOutcome /\ last.truth = "block" /\ last.path \in {"mock", "wrapped"} /\ propagateErrors )
  => /\ \E k \in 1..Len(NewRecords) :
          NewRecords[k].isError /\ NewRecords[k].text = last.reason
     /\ outcome.kind = "throw"
     /\ Get(outcome.err).message = last.reason
     /\ Get(outcome.err).cause = None

\* the last invocation's tool_execution_end has been collected
Collected == last.path # "none" /\ pc \notin {"exec", "toolend"}

\* C8: blockedCalls() is exactly the calls a hook blocked: the Tool Call
\* Record of an invocation is flagged blocked, with the block text as
\* blockReason, if and only if a hook blocked it.
C8_BlockedCallsExact ==
  Collected =>
    LET call == toolCalls[Len(toolCalls)]
    IN /\ call.blocked <=> (last.truth = "block")
       /\ (last.truth = "block") => call.blockReason = Some(last.reason)

\* C9: the error raised when a hook blocks a mocked tool is a ToolBlockedError
\* (name, marker, message = reason); an ordinary error is not, whatever its
\* message.
C9_TypedBlockError ==
  AtOutcome /\ outcome.kind = "throw" =>
    LET err == Get(outcome.err)
    IN IF last.path = "mock" /\ last.truth = "block"
       THEN err.name = "ToolBlockedError" /\ err.toolBlocked /\ err.message = last.reason
       ELSE last.truth = "error" => (err.name # "ToolBlockedError" /\ ~err.toolBlocked)

\* C10: when the real execution of an unmocked wrapped tool fails with an
\* error that is not classified as a block, exactly one record (isError, not
\* mocked, text = the message) is appended and the callback fired; then with
\* propagateErrors the invocation throws an error naming step and tool with
\* the original as cause, and without it returns an error result with the
\* message as text.
C10_RealFailure ==
  ( AtOutcome /\ last.path = "wrapped" /\ last.truth = "error" /\ ~isBlockedByHook(last.reason) )
  => /\ Len(NewRecords) = 1
     /\ NewRecords[1].isError
     /\ ~NewRecords[1].mocked
     /\ NewRecords[1].text = last.reason
     /\ last.id \notin DOMAIN State.pendingCallbacks
     /\ IF propagateErrors
        THEN /\ outcome.kind = "throw"
             /\ Get(outcome.err).cause = Some(PlainError(last.reason))
             /\ Get(outcome.err).message =
                  formatToolError(last.idx, last.tool, PlainError(last.reason))
        ELSE /\ outcome.kind = "return"
             /\ IsSome(outcome.result.isError) /\ Get(outcome.result.isError)
             /\ ContentText(outcome.result.content) = last.reason

\* C10 holds of a tool under a single wrapForCollection layer
C10_RealFailureSingleLayer == last.depth = 1 => C10_RealFailure

\* C11: when the real execution of an unmocked wrapped tool fails with an
\* error classified as a hook block, exactly one record (isError, not mocked,
\* text = the message) is appended, the pending callback fired, and the
\* invocation throws the original error itself (no cause, no diagnostic, no
\* returned result), for both values of propagateErrors.
C11_BlockRethrown ==
  ( AtOutcome /\ last.path = "wrapped" /\ last.truth # "ok" /\ isBlockedByHook(last.reason) )
  => /\ Len(NewRecords) = 1
     /\ NewRecords[1].isError
     /\ ~NewRecords[1].mocked
     /\ NewRecords[1].text = last.reason
     /\ NewRecords[1].toolCallId = last.id
     /\ last.id \notin DOMAIN State.pendingCallbacks
     /\ ActionAt(last.run, last.idx).thenCallback # "none"
          => Len(fired) > last.firedBefore /\ fired[Len(fired)].cb.idx = last.idx
     /\ outcome.kind = "throw"
     /\ Get(outcome.err) = PlainError(last.reason)

\* C11 holds of a tool under a single wrapForCollection layer
C11_BlockRethrownSingleLayer == last.depth = 1 => C11_BlockRethrown

\* C12: for a mocked tool that is not blocked, the value returned to the
\* runtime has the content, the details and the error flag of the resolved,
\* hook-adjusted mock result, so the error flag of the Tool Result Record and
\* the error flag the runtime sees for the invocation agree.
C12_MockResultUnchanged ==
  ( AtOutcome /\ last.path = "mock" /\ last.truth = "ok" )
  => /\ Len(NewRecords) = 1
     /\ outcome.kind = "return"
     /\ outcome.result.content = NewRecords[1].content
     /\ IsSome(NewRecords[1].details) => outcome.result.details = NewRecords[1].details
     /\ (IsSome(outcome.result.isError) /\ Get(outcome.result.isError)) = NewRecords[1].isError
     /\ EndEvent.isError = NewRecords[1].isError

\* the text a mock handler produces for parameters p: the string itself, the
\* function's result, or the text items of a ToolResult
HandlerText(handler, p) ==
  IF handler.kind = "string" THEN <<"ok">>
  ELSE IF handler.kind = "function" THEN <<"$">> \o p.id
  ELSE <<"Written", "\n", "successfully">>

\* the first run() of the session has finished; it scripted [Call(t, p), Say(s)]
\* for a mocked tool t and no hook blocked the call
MockedCallThenSay(t) ==
  /\ pc = "idle"
  /\ Len(runLog) = 1
  /\ Len(runLog[1].turns) = 1
  /\ Len(Flatten(runLog[1].turns)) = 2
  /\ Flatten(runLog[1].turns)[1].type = "call"
  /\ Flatten(runLog[1].turns)[1].toolName = t
  /\ Flatten(runLog[1].turns)[2].type = "say"
  /\ IsMocked(t)
  /\ last.truth = "ok"

\* the claim of C13 as stated: whatever the tool_result handlers answer
C13_MockedCallThenSayAnyHook ==
  \A t \in ToolNames :
    MockedCallThenSay(t)
    => /\ Len(toolResultsFor(t)) = 1
       /\ toolResultsFor(t)[1].text = HandlerText(Get(mockTools)[t], toolCalls[1].input)
       /\ toolResultsFor(t)[1].mocked
       /\ runLog[1].consumed = 2
       /\ runLog[1].remaining = 0

\* C13: for a playbook [Call(t, p), Say(s)] where t has a mock handler, no hook
\* blocks and no tool_result handler replaces the content, after run() the
\* result list for t has exactly one record, its text is the text the handler
\* produces for p, mocked is true, consumed is 2 and remaining is 0.
C13_MockedCallThenSay ==
  \A t \in ToolNames :
    ( /\ MockedCallThenSay(t)
      /\ ~(IsSome(last.resultHook) /\ IsSome(Get(last.resultHook).content)) )
    => /\ Len(toolResultsFor(t)) = 1
       /\ toolResultsFor(t)[1].text = HandlerText(Get(mockTools)[t], toolCalls[1].input)
       /\ toolResultsFor(t)[1].mocked
       /\ toolResultsFor(t)[1].step = 1
       /\ runLog[1].consumed = 2
       /\ runLog[1].remaining = 0
       /\ runLog[1].result = "ok"

\* C13 witness: the run finished with a function handler called with
\* late-bound parameters, the tool_result handlers answering nothing
C13_Witness ==
  /\ MockedCallThenSay("counter")
  /\ "tool_result" \in hooks
  /\ last.resultHook = None
  /\ toolCalls[1].input = Producer(<<"changed">>)
  /\ toolResultsFor("counter")[1].text = <<"$", "changed">>

RECURSIVE ActionCount(_)
\* the number of actions a playbook scripts, over all its turns
ActionCount(ts) == IF Len(ts) = 0 THEN 0 ELSE Len(ts[1].actions) + ActionCount(Tail(ts))

\* every action of the playbook is a Say
SayOnly(ts) == \A k \in 1..Len(ts) : \A j \in 1..Len(ts[k].actions) : ts[k].actions[j].type = "say"

C15_ExhaustedFrame ==
  [][ (pc = "gen" /\ queue = <<>>)
      => /\ message'.stopReason = "stop"
         /\ message'.type = "text"
         /\ Includes(message'.text, "[PLAYBOOK EXHAUSTED]")
         /\ pb' = pb
         /\ queue' = <<>>
         /\ toolCallCounter' = toolCallCounter
         /\ toolCalls' = toolCalls /\ toolResults' = toolResults /\ fired' = fired ]_vars

\* C15 witness: the second generation call on an empty queue in one run has
\* been answered, and the state still has its values
C15_Witness ==
  /\ pc = "turnend"
  /\ turnIdx = 2
  /\ ActionCount(turns) = 0
  /\ Includes(message.text, "[PLAYBOOK EXHAUSTED]")
  /\ State.consumed = 0 /\ State.remaining = 0 /\ State.consumedActions = <<>>

\* the action at flattened position i of a playbook, as the diagnostic shows it
ShownAction(ts, i) ==
  LET a == Flatten(ts)[i]
  IN IF a.type = "say" THEN <<"say">> \o a.text
     ELSE IF a.params = "late" THEN <<"call", a.toolName, "<late-bound>">>
     ELSE <<"call", a.toolName, "fixed">>

\* C16: a finished run() failed if and only if its playbook was not consumed
\* to the end; the diagnostic of the failure reports "Consumed c of n" with n
\* the number of scripted actions and lists the actions at flattened positions
\* c+1 .. n in script order, the first 5 of them, then the number of the rest.
C16_RemainderDiagnostic ==
  \A r \in 1..Len(runLog) :
    LET ts == runLog[r].turns
        c == pb[r].consumed
        n == ActionCount(ts)
        d == Get(runLog[r].diagnostic)
    IN /\ (runLog[r].result # "ok") <=> (c < n)
       /\ IsSome(runLog[r].diagnostic) <=> (c < n)
       /\ c < n
            => /\ d.consumed = c
               /\ d.total = n
               /\ Len(d.listed) = (IF n - c > 5 THEN 5 ELSE n - c)
               /\ \A k \in 1..Len(d.listed) : d.listed[k] = ShownAction(ts, c + k)
               /\ d.more = (IF n - c > 5 THEN n - c - 5 ELSE 0)

\* C16 witness: a run failed with more unconsumed actions than the diagnostic
\* lists, after another run failed with a single unconsumed Call
C16_Witness ==
  /\ Len(runLog) = 2
  /\ runLog[1].result # "ok"
  /\ Get(runLog[1].diagnostic).listed = <<(<<"call", "bash", "fixed">>)>>
  /\ runLog[2].result # "ok"
  /\ Get(runLog[2].diagnostic).more = 1
  /\ Get(runLog[2].diagnostic).consumed = 1

\* the Call actions the current engine has dequeued
CallsDequeued == Len(SelectSeq(State.consumedActions, LAMBDA a : a.type = "call"))

\* C17: the k-th Call action an engine dequeues receives the id
\* "playbook-tc-k", whatever the engines of other sessions do in between; the
\* ids of the records of one run are therefore pairwise distinct.
C17_CallIdsPerEngine ==
  /\ pc = "toolstart" => message.id = ToolCallId(CallsDequeued)
  /\ pc = "idle" =>
       \A i, j \in 1..Len(toolResults) :
         ( /\ i # j
           /\ Len(runLog) = 1
           /\ toolResults[i].mocked /\ toolResults[j].mocked )
         => toolResults[i].toolCallId # toolResults[j].toolCallId

\* C18: no completion callback is invoked more than once, and a callback that
\* has fired is in no pending map any more, whether it was found by the call
\* id or by the tool name, also when a call id is the name of a tool.
C18_CallbackAtMostOnce ==
  /\ \A a, b \in 1..Len(fired) : a # b => fired[a].cb # fired[b].cb
  /\ \A a \in 1..Len(fired) : \A r \in 1..Len(pb) :
       \A k \in DOMAIN pb[r].pendingCallbacks : pb[r].pendingCallbacks[k] # fired[a].cb

\* C18 witness: a callback registered under a call id has fired through the
\* tool-name key, for an invocation of the tool named like that id, and a
\* later invocation with that id has found nothing to fire
C18_Witness ==
  /\ Len(fired) = 1
  /\ fired[1].record.toolCallId = "playbook-tc-2"
  /\ fired[1].record.toolName = "playbook-tc-1"
  /\ Len(toolResults) = 2
  /\ toolResults[2].toolCallId = "playbook-tc-1"
  /\ DOMAIN pb[1].pendingCallbacks = {}

\* C19: every invocation of a method of the mock UI appends exactly one record
\* with the method name, the arguments and the returned value to events.ui:
\* the log holds one record per invocation, in order.
C19_EveryUICallRecorded ==
  /\ Len(ui) = Len(uiCalled)
  /\ \A k \in 1..Len(ui) :
       /\ ui[k].method = uiCalled[k].method
       /\ ui[k].args = uiCalled[k].args
       /\ ui[k].returnValue = uiCalled[k].returned

\* C19 of the methods whose body records: the four interactive ones, notify,
\* setStatus, setWorkingMessage, setWidget and setTitle
C19_RecordingMethodsRecorded ==
  (\A k \in 1..Len(uiCalled) : uiCalled[k].method \in RecordingUIMethods \cup {"select", "confirm", "input", "editor"})
  => C19_EveryUICallRecorded

\* the last invocation of a UI method and the record it appended
LastUICall == uiCalled[Len(uiCalled)]
LastUIRecord == ui[Len(ui)]

\* C20: confirm, select, input and editor return, with no configuration, the
\* default (true, the first option, "", ""); with a static value, that value
\* (select: the option at the numeric index, or the option equal to the
\* string); with a function, its result for the call's arguments; and the
\* returnValue of the record of the call is the value returned.
C20_InteractiveResults ==
  ( Len(uiCalled) > 0 /\ LastUICall.method \in {"confirm", "select", "input", "editor"} )
  => LET call == LastUICall
         a == call.args
         h == mockUI[call.method]
     IN /\ Len(ui) > 0
        /\ LastUIRecord.method = call.method
        /\ LastUIRecord.args = a
        /\ LastUIRecord.returnValue = call.returned
        /\ h.kind = "undefined" =>
             call.returned = (IF call.method = "confirm" THEN Bool(TRUE)
                              ELSE IF call.method = "select" THEN Str(a.options[1])
                              ELSE Str(""))
        /\ h.kind = "boolean" => (call.method = "confirm" /\ call.returned = Bool(FALSE))
        /\ h.kind = "number" => (call.method = "select" /\ Len(a.options) > 1
                                   => call.returned = Str(a.options[2]))
        /\ h.kind = "string" =>
             call.returned = (IF call.method = "input" THEN Str("typed")
                              ELSE IF call.method = "editor" THEN Str("edited")
                              ELSE IF a.options = <<"a", "b">> THEN Str("b")
                              ELSE call.returned)
        /\ h.kind = "function" =>
             call.returned = (IF call.method = "confirm" THEN Bool(a.a1 = "Pick")
                              ELSE IF call.method = "select" THEN Str(a.options[Len(a.options)])
                              ELSE IF call.method = "input" THEN Str("name!")
                              ELSE Str(a.a1 \o "draft"))

\* C20 witness: after a select answered by the configured string, an editor
\* call is answered by the configured string too
C20_Witness ==
  /\ Len(uiCalled) = 2
  /\ uiCalled[1].method = "select" /\ mockUI.select.kind = "string"
  /\ uiCalled[1].returned = Str("b")
  /\ uiCalled[2].method = "editor" /\ mockUI.editor.kind = "string"
  /\ ui[2].returnValue = Str("edited")

\* the setup of the session failed on extension load errors
SetupFailed == harness.phase = "failed"

\* C21: when the extension loader reports errors, createTestSession throws an
\* error listing them and returns no session; before that it disposes the
\* runtime session and removes the working directory if and only if it
\* created it; no subscription, no mock UI binding and no run() happens.
C21_FailedSetupCleansUp ==
  /\ ( harness.phase \in {"failed", "ready", "disposed"} )
       => ( SetupFailed <=> Len(sessOptions.extensionErrors) > 0 )
  /\ SetupFailed
       => /\ harness.setupError = Some(ExtensionLoadError(sessOptions.extensionErrors))
          /\ harness.runtimeDisposals = 1
          /\ ~sessOptions.cwdGiven => TmpDir \notin fsDirs
          /\ sessOptions.cwdGiven => CallerDir \in fsDirs
          /\ ~harness.subscribed /\ ~harness.uiBound /\ harness.runs = 0

\* C21 where no file of the working directory is held open
C21_FailedSetupCleansUpUnheld == fsHeld = {} => C21_FailedSetupCleansUp

\* C22: the working directory is removed by dispose() only when the session
\* created it as a temporary directory; a directory the caller supplied still
\* exists after dispose() and after a failed setup.
C22_OnlyOwnedDirRemoved ==
  /\ ( sessOptions.cwdGiven /\ harness.phase # "none" ) => CallerDir \in fsDirs
  /\ sessOptions.cwdGiven => TmpDir \notin fsDirs
  /\ ( ~sessOptions.cwdGiven /\ harness.phase = "disposed" /\ fsHeld = {} ) => TmpDir \notin fsDirs

\* C22 witness: the session of a caller-supplied directory was disposed, with
\* no file held open, and the directory is still there
C22_Witness ==
  /\ sessOptions.cwdGiven
  /\ harness.phase = "disposed"
  /\ fsHeld = {}
  /\ harness.disposeError = None
  /\ CallerDir \in fsDirs

\* C23: dispose() completes without raising when the deletion of the owned
\* temporary directory fails because a file in it is still held open.
C23_DisposeToleratesRmFailure ==
  harness.phase = "disposed" => harness.disposeError = None

\* the history of instance i since it was created or last reset
RECURSIVE SinceReset(_, _)
SinceReset(log, i) ==
  IF Len(log) = 0 THEN <<>>
  ELSE LET e == log[Len(log)]
           front == SubSeq(log, 1, Len(log) - 1)
       IN IF e.inst = i /\ e.kind = "reset" THEN <<>>
          ELSE IF e.inst = i /\ e.kind \in {"onCall", "invoke", "crash"} /\ ~(e.kind = "onCall" /\ e.threw)
          THEN Append(SinceReset(front, i), e)
          ELSE SinceReset(front, i)

\* the responses queued in a history, and its invocations
QueuedIn(h) == SelectSeq(h, LAMBDA e : e.kind = "onCall")
InvokedIn(h) == SelectSeq(h, LAMBDA e : e.kind # "onCall")

\* a history of serial invocations: none ran while another one or the test
\* touched the files of the instance, none crashed, and none is running
Serial(h, i) ==
  /\ \A k \in 1..Len(h) : h[k].kind = "invoke" => ~h[k].overlapped
  /\ \A k \in 1..Len(h) : h[k].kind # "crash"
  /\ ~\E p \in piProcs : p.inst = i

\* every response of a history was queued before its first invocation
QueuedFirst(h) ==
  \A a, b \in 1..Len(h) : (h[a].kind = "invoke" /\ h[b].kind = "onCall") => b < a

\* what an invocation answers for descriptor d; the default echoes the task
Answers(result, d) ==
  /\ IsSome(d.output) => result.output = Get(d.output)
  /\ ~IsSome(d.output) => result.output \in { <<"Mock output for:", "hello">> }
  /\ result.exitCode = (IF IsSome(d.exitCode) THEN Get(d.exitCode) ELSE 0)

\* C24: with responses r1..rn queued and then serial invocations, the i-th
\* invocation answers r_i for i <= n and r_n after that; with nothing queued
\* every invocation echoes the task text with exit code 0.
C24_QueueInOrderLastRepeats ==
  \A i \in 1..Len(pis) :
    LET h == SinceReset(piLog, i)
        q == QueuedIn(h)
        v == InvokedIn(h)
    IN ( Serial(h, i) /\ QueuedFirst(h) )
       => \A k \in 1..Len(v) :
            IF Len(q) = 0 THEN Answers(v[k].result, NoDescriptor)
            ELSE Answers(v[k].result, q[IF k <= Len(q) THEN k ELSE Len(q)].response)

\* C24 witness: two responses queued, then three serial invocations, the third
\* repeating the second response
C24_Witness ==
  LET h == SinceReset(piLog, 1)
  IN /\ Len(QueuedIn(h)) = 2 /\ Len(InvokedIn(h)) = 3
     /\ Serial(h, 1) /\ QueuedFirst(h)
     /\ h[1].response.output = Some(<<"r1">>)
     /\ h[2].response.exitCode = Some(1)
     /\ h[5].result.exitCode = 1

\* the place in the queue of the response queued at position a of history h
QueuedAs(h, a) == Len(QueuedIn(SubSeq(h, 1, a)))

\* an invocation at or before position b of history h answered the j-th
\* response of the queue
ReturnedBy(h, b, j) ==
  \E c \in 1..b : h[c].kind = "invoke" /\ h[c].index = j

\* the invocation at position b of history h answers a response an earlier
\* invocation has answered
Repeats(h, b) ==
  /\ h[b].kind = "invoke" /\ h[b].index > 0
  /\ \E c \in 1..(b - 1) : h[c].kind = "invoke" /\ h[c].index = h[b].index

\* C25, first part: in serial use the response queued right before an
\* invocation, after all earlier ones were returned, is the one that
\* invocation answers
C25_NextInvocationReturnsIt ==
  \A i \in 1..Len(pis) :
    LET h == SinceReset(piLog, i)
    IN Serial(h, i) =>
         \A a \in 1..(Len(h) - 1) :
           ( /\ h[a].kind = "onCall" /\ h[a + 1].kind = "invoke"
             /\ \A j \in 1..(QueuedAs(h, a) - 1) : ReturnedBy(h, a, j) )
           => /\ h[a + 1].index = QueuedAs(h, a)
              /\ Answers(h[a + 1].result, h[a].response)

\* C25: in serial use a response queued after all earlier ones were returned
\* is answered by the very next invocation, and no response is repeated
\* before every queued response has been returned by some invocation.
C25_EveryResponseReturned ==
  /\ C25_NextInvocationReturnsIt
  /\ \A i \in 1..Len(pis) :
       LET h == SinceReset(piLog, i)
       IN Serial(h, i) =>
            \A b \in 1..Len(h) :
              Repeats(h, b) => \A j \in 1..QueuedAs(h, b) : ReturnedBy(h, b, j)

\* the invocations of a history that ran to their end
Completed(h) == SelectSeq(h, LAMBDA e : e.kind = "invoke")

\* C26: callCount() is the number of pi invocations since the instance was
\* created or last reset, overlapping invocations included; after reset()
\* the count is 0 and the queue is empty.
C26_CallCountCountsInvocations ==
  \A i \in 1..Len(pis) :
    LET h == SinceReset(piLog, i)
    IN /\ ( pis[i].dirExists /\ ~\E p \in piProcs : p.inst = i )
          => callCount(i) = Len(Completed(h))
       /\ ( Len(piLog) > 0 /\ piLog[Len(piLog)].kind = "reset" /\ piLog[Len(piLog)].inst = i )
          => callCount(i) = 0 /\ pis[i].queue = <<>>

\* C26 for serial invocations only
C26_CallCountSerial ==
  \A i \in 1..Len(pis) :
    LET h == SinceReset(piLog, i)
    IN /\ ( pis[i].dirExists /\ Serial(h, i) ) => callCount(i) = Len(Completed(h))
       /\ ( Len(piLog) > 0 /\ piLog[Len(piLog)].kind = "reset" /\ piLog[Len(piLog)].inst = i )
          => callCount(i) = 0 /\ pis[i].queue = <<>>

\* the step is an onCall() of instance i
OnCallStep(i) ==
  /\ Len(piLog') = Len(piLog) + 1
  /\ piLog'[Len(piLog')].kind = "onCall"
  /\ piLog'[Len(piLog')].inst = i

\* C27: onCall() with a key outside output, exitCode, stderr, delay, jsonl,
\* writeFiles throws an error naming the unknown keys and leaves queue and
\* counter as they were; a descriptor of valid keys only, the empty one
\* included, is appended to the queue.
C27_UnknownKeysRejected ==
  [][ \A i \in 1..Len(pis) :
        OnCallStep(i) =>
          LET e == piLog'[Len(piLog')]
              unknown == e.response.keys \ {"output", "exitCode", "stderr", "delay", "jsonl", "writeFiles"}
          IN IF unknown # {}
             THEN /\ e.threw /\ e.unknown = unknown
                  /\ pis'[i].queue = pis[i].queue
                  /\ pis'[i].counter = pis[i].counter
             ELSE /\ ~e.threw
                  /\ pis'[i].queue = Append(pis[i].queue, e.response)
                  /\ pis'[i].counter = pis[i].counter ]_vars

\* C27 witness: a descriptor with a misspelt key was rejected after one
\* response was queued and answered, the empty descriptor was queued
C27_Witness ==
  /\ Len(piLog) = 4
  /\ piLog[4].kind = "onCall" /\ piLog[4].threw /\ piLog[4].unknown = {"ouptut"}
  /\ piLog[3].kind = "onCall" /\ piLog[3].response.keys = {} /\ ~piLog[3].threw
  /\ piLog[2].kind = "invoke"
  /\ Len(pis[1].queue) = 2 /\ pis[1].counter = 1

\* C28: once every instance is uninstalled PATH is what it was before the
\* first install, whatever the order of the calls, and PATH never holds the
\* directory of an uninstalled instance.
C28_PathRestored ==
  /\ ( \A i \in 1..Len(pis) : ~pis[i].installed ) => envPath = SystemPath
  /\ \A i \in 1..Len(pis) :
       ~pis[i].installed => ~\E k \in 1..Len(envPath) : envPath[k] = pis[i].dir

\* C28 for instances uninstalled in the reverse order of their installs: the
\* instances installed are the ones on PATH, in that order
C28_PathRestoredNested ==
  ( \A k \in 1..(Len(envPath) - 1) :
      \E i \in 1..Len(pis) : pis[i].installed /\ pis[i].dir = envPath[k] )
  => ( ( \A i \in 1..Len(pis) : ~pis[i].installed ) => envPath = SystemPath )

\* the step is an invocation of an unmocked wrapped tool whose real execute
\* succeeds
WrappedSuccessStep ==
  pc = "exec" /\ pc' = "toolend" /\ last'.path = "wrapped" /\ last'.truth = "ok"

\* C29: when the real execution of an unmocked wrapped tool succeeds, the
\* real execute ran exactly once, the invocation returns the real result
\* itself, and exactly one record is appended, not mocked, with the text,
\* content, details and error flag of the real result.
C29_RealSuccess ==
  [][ WrappedSuccessStep =>
        LET real == RealResult(message.name, message.arguments, hits[message.name] + 1)
            record == toolResults'[Len(toolResults')]
        IN /\ hits'[message.name] = hits[message.name] + 1
           /\ outcome' = Returned(real)
           /\ Len(toolResults') = Len(toolResults) + 1
           /\ ~record.mocked
           /\ record.toolName = message.name /\ record.toolCallId = message.id
           /\ record.text = ContentText(real.content)
           /\ record.content = real.content
           /\ record.details = real.details
           /\ ~record.isError ]_vars

\* C29 holds of a tool under a single wrapForCollection layer
C29_RealSuccessSingleLayer ==
  [][ ( WrappedSuccessStep /\ Len(layers) = 1 ) =>
        LET real == RealResult(message.name, message.arguments, hits[message.name] + 1)
            record == toolResults'[Len(toolResults')]
        IN /\ hits'[message.name] = hits[message.name] + 1
           /\ outcome' = Returned(real)
           /\ Len(toolResults') = Len(toolResults) + 1
           /\ ~record.mocked
           /\ record.text = ContentText(real.content)
           /\ record.content = real.content
           /\ record.details = real.details
           /\ ~record.isError ]_vars

\* the step is an invocation of a mocked tool that no hook blocks
MockSuccessStep ==
  pc = "exec" /\ pc' = "toolend" /\ last'.path = "mock" /\ last'.truth = "ok"

\* C30: for a mocked tool that is not blocked, the tool_result hook is
\* emitted only if handlers are registered for it, on the resolved result of
\* the mock handler; the content or details it returns replace the mock's in
\* the one record appended (text included) and in the value returned, and a
\* field it does not return keeps the mock's value (absent details are
\* returned as the empty object).
C30_ResultHookSubstitutes ==
  [][ MockSuccessStep =>
        LET mock == normalizeMockResult(Get(mockTools)[message.name], message.arguments)
            hook == last'.resultHook
            content == IF IsSome(hook) /\ IsSome(Get(hook).content)
                       THEN Get(Get(hook).content) ELSE mock.content
            details == IF IsSome(hook) /\ IsSome(Get(hook).details)
                       THEN Get(hook).details ELSE mock.details
            record == toolResults'[Len(toolResults')]
        IN /\ last'.resultHookEmits = (IF "tool_result" \in hooks THEN 1 ELSE 0)
           /\ "tool_result" \notin hooks => hook = None
           /\ Len(toolResults') = Len(toolResults) + 1
           /\ record.mocked
           /\ record.content = content
           /\ record.text = ContentText(content)
           /\ record.details = details
           /\ outcome'.kind = "return"
           /\ outcome'.result.content = content
           /\ outcome'.result.details = (IF IsSome(details) THEN details ELSE Some("{}")) ]_vars

\* C30 witness: the hook returned content for a mocked call; the record and
\* the value returned carry it, with the details of the mock
C30_Witness ==
  /\ AtOutcome /\ last.path = "mock" /\ last.truth = "ok"
  /\ last.resultHookEmits = 1
  /\ IsSome(last.resultHook) /\ IsSome(Get(last.resultHook).content)
  /\ Len(NewRecords) = 1
  /\ NewRecords[1].text = <<"redacted">>
  /\ outcome.result.content = <<TextItem(<<"redacted">>)>>
  /\ NewRecords[1].details = Some("{}")

\* C31: for every failed invocation of an unmocked wrapped tool the
\* interceptor classifies the error as a block (and re-raises it as it is)
\* if and only if the collector flags the Tool Call Record of the call as
\* blocked.
C31_OneBlockPredicate ==
  ( Collected /\ last.path = "wrapped" /\ last.truth # "ok" )
  => ( isBlockedByHook(last.reason) <=> toolCalls[Len(toolCalls)].blocked )

\* C31 for the error texts both sites know: "blocked" and "Plan mode"
C31_OneBlockPredicateKnownPhrases ==
  ( Collected /\ last.path = "wrapped" /\ last.truth # "ok"
    /\ ~Includes(last.reason, "WRITE operation") )
  => ( isBlockedByHook(last.reason) <=> toolCalls[Len(toolCalls)].blocked )

\* the position of the most recent record of a tool name, 0 if there is none
MostRecent(records, name) ==
  LET S == { j \in 1..Len(records) : records[j].toolName = name }
  IN IF S = {} THEN 0 ELSE CHOOSE j \in S : \A o \in S : o <= j

\* C32: an execution-end event that signals an error with a block phrase in
\* its text sets the blocked flag and the block reason on the most recent
\* Tool Call Record of the same tool name, also when executions of other
\* tools started in between; no record of another tool name is changed.
C32_FlagsMostRecentOfSameName ==
  [][ \A k \in running \ running' :
        LET event == EndEventOf(last'.tool, outcome')
            text == ContentText(event.content)
            m == MostRecent(toolCalls, event.toolName)
        IN /\ Len(toolCalls') = Len(toolCalls)
           /\ ( event.isError /\ IsBlockText(text) )
              => /\ toolCalls'[m].blocked
                 /\ toolCalls'[m].blockReason = Some(text)
           /\ \A j \in 1..Len(toolCalls) :
                toolCalls[j].toolName # event.toolName => toolCalls'[j] = toolCalls[j] ]_vars

\* C32 when no execution of another tool started after the call that ends
C32_FlagsLastRecord ==
  [][ \A k \in running \ running' :
        LET event == EndEventOf(last'.tool, outcome')
            text == ContentText(event.content)
            m == MostRecent(toolCalls, event.toolName)
        IN /\ Len(toolCalls') = Len(toolCalls)
           /\ ( event.isError /\ IsBlockText(text) /\ m = Len(toolCalls) )
              => /\ toolCalls'[m].blocked
                 /\ toolCalls'[m].blockReason = Some(text)
           /\ \A j \in 1..Len(toolCalls) :
                toolCalls[j].toolName # event.toolName => toolCalls'[j] = toolCalls[j] ]_vars

\* the position after the first Say past position c of a flattened playbook:
\* where the generation stands when the turn that started at c has ended
RECURSIVE AfterSay(_, _)
AfterSay(flat, c) ==
  IF c >= Len(flat) THEN Len(flat)
  ELSE IF flat[c + 1].type = "say" THEN c + 1
  ELSE AfterSay(flat, c + 1)

\* the consumed count when the prompt of turn i is submitted
RECURSIVE ConsumedAtTurn(_, _)
ConsumedAtTurn(ts, i) ==
  IF i <= 1 THEN 0 ELSE AfterSay(Flatten(ts), ConsumedAtTurn(ts, i - 1))

\* C33: each execution-start event appends exactly one Tool Call Record, not
\* blocked, whose step is the consumed count of the playbook when the prompt
\* of the current turn was submitted; toolSequence() is the tool names of the
\* start events in their order over all runs, and toolCalls only grows at
\* its end.
C33_StartAppendsOneRecord ==
  [][ LET started == pc = "toolstart" /\ pc' = "exec"
          n == Len(toolCalls)
      IN /\ started =>
              /\ Len(toolCalls') = n + 1
              /\ ~toolCalls'[n + 1].blocked
              /\ toolCalls'[n + 1].step = ConsumedAtTurn(turns, turnIdx)
              /\ toolCalls'[n + 1].toolName = message.name
         /\ ~started => Len(toolCalls') = n
         /\ toolSequence' = (IF started THEN Append(toolSequence, message.name)
                             ELSE toolSequence)
         /\ \A k \in 1..n : toolCalls'[k].step = toolCalls[k].step
                            /\ toolCalls'[k].input = toolCalls[k].input ]_vars

\* C33 witness: the call of a second turn, after the Say of the first one,
\* is recorded with step 1
C33_Witness ==
  /\ Len(toolCalls) = 1
  /\ toolCalls[1].step = 1 /\ ~toolCalls[1].blocked
  /\ turnIdx = 2
  /\ toolSequence = <<"bash">>

\* the step is one tool invocation: the interceptor and the execute under it
InvocationStep == pc = "exec" /\ pc' = "toolend"

\* C34: the step of every Tool Result Record is the position, in the
\* flattened queue of the run in which the tool executes, of the Call that
\* triggered the invocation, read from the PlaybookState of that run.
C34_StepIsPlaybookPosition ==
  [][ InvocationStep =>
        \A k \in (Len(toolResults) + 1)..Len(toolResults') :
          /\ toolResults'[k].step = pb[CurRun].consumed
          /\ Flatten(turns)[toolResults'[k].step].type = "call"
          /\ Flatten(turns)[toolResults'[k].step].toolName = toolResults'[k].toolName ]_vars

\* C34 holds of the mocked tools and of a tool under a single
\* wrapForCollection layer
C34_StepIsPlaybookPositionSingleLayer ==
  [][ ( InvocationStep /\ ( IsMocked(message.name) \/ Len(layers) = 1 ) ) =>
        \A k \in (Len(toolResults) + 1)..Len(toolResults') :
          /\ toolResults'[k].step = pb[CurRun].consumed
          /\ Flatten(turns)[toolResults'[k].step].type = "call"
          /\ Flatten(turns)[toolResults'[k].step].toolName = toolResults'[k].toolName ]_vars

\* C35: events.toolResults is append-only over the whole session: every step
\* (a tool invocation with any outcome, a callback, a further run) leaves the
\* records appended so far in place, in their order and with their values.
C35_ToolResultsAppendOnly ==
  [][ /\ Len(toolResults') >= Len(toolResults)
      /\ SubSeq(toolResults', 1, Len(toolResults)) = toolResults
      /\ toolResults' # toolResults => InvocationStep ]_vars

\* C35 witness: a second run has appended a record after the record of the
\* first run, whose callback has fired
C35_Witness ==
  /\ Len(runLog) = 1 /\ CurRun = 2
  /\ Len(toolResults) >= 2
  /\ Len(fired) >= 1
  /\ toolResults[1].toolName # toolResults[Len(toolResults)].toolName

\* the actions of a playbook in their order, whatever its prompts and turn
\* boundaries
RECURSIVE ActionsInOrder(_)
ActionsInOrder(ts) ==
  IF Len(ts) = 0 THEN <<>> ELSE Head(ts).actions \o ActionsInOrder(Tail(ts))

\* the runtime is idle: the generation ended the turn with a Say or with the
\* message of an exhausted playbook
Idle == pc = "turnend"

\* C36: within one run() the prompts are submitted in the order of the turns,
\* the next one only after the runtime was idle for the one before; each
\* generation call consumes exactly the next action of the flattened script,
\* across turn boundaries and whatever the prompt is.
C36_PromptsAndActionsInOrder ==
  [][ /\ turnIdx' # turnIdx =>
           \/ pc = "scripted" /\ turnIdx' = 1
           \/ Idle /\ turnIdx' = turnIdx + 1 /\ turnIdx' <= Len(turns)
      /\ ( pc = "prompt" /\ pc' = "gen" ) => turnIdx \in 1..Len(turns)
      /\ ( pc = "gen" /\ pc' # "gen" /\ queue # <<>> ) =>
           LET n == pb[CurRun].consumed
               action == ActionsInOrder(turns)[n + 1]
           IN /\ pb'[CurRun].consumed = n + 1
              /\ pb'[CurRun].consumedActions = Append(pb[CurRun].consumedActions, action)
              /\ message'.type = (IF action.type = "call" THEN "toolCall" ELSE "text")
              /\ message'.name = action.toolName
              /\ message'.text = action.text
      /\ ( pc # "gen" /\ pc # "scripted" ) => pb' = pb \/ InvocationStep ]_vars

\* C36 witness: the prompt of the second turn is submitted after the first
\* turn went idle, and the generation has consumed the first action only
C36_Witness ==
  /\ pc = "gen" /\ turnIdx = 2
  /\ State.consumed = 1 /\ State.remaining >= 1
  /\ turns[1].prompt # turns[2].prompt

\* the step is one call of the generation function
GenerationStep == pc = "gen" /\ pc' # "gen"

\* C37: the generation function raises no error on any invocation, for any
\* playbook: it yields one terminal message, with termination reason
\* 'toolUse' if and only if the dequeued action is a Call and 'stop' for a
\* Say or an exhausted queue.
C37_GenerationNeverFails ==
  [][ GenerationStep =>
        /\ pc' # "genthrew"
        /\ message'.stopReason =
             (IF queue # <<>> /\ Head(queue).type = "call" THEN "toolUse" ELSE "stop") ]_vars

\* C37 for the playbooks whose producers do not throw
C37_GenerationOfTotalProducers ==
  [][ ( GenerationStep /\ ~(queue # <<>> /\ producerThrows(Head(queue))) ) =>
        /\ pc' # "genthrew"
        /\ message'.stopReason =
             (IF queue # <<>> /\ Head(queue).type = "call" THEN "toolUse" ELSE "stop") ]_vars

\* the turns run r was given
TurnsOf(r) == IF r <= Len(runLog) THEN runLog[r].turns ELSE turns

\* the counters and the log of the engine of run r agree with its script
EngineConsistent(r) ==
  LET flat == ActionsInOrder(TurnsOf(r))
  IN /\ pb[r].consumed + pb[r].remaining = Len(flat)
     /\ pb[r].consumed <= Len(flat)
     /\ pb[r].consumedActions = SubSeq(flat, 1, pb[r].consumed)

\* C38: in every state of an engine consumed + remaining is the number of
\* actions of the flattened turns, consumed never decreases, remaining never
\* increases, and the consumed-actions log is the first `consumed` actions
\* of the flattened script in order.
C38_EngineCounters ==
  [][ /\ \A r \in 1..Len(pb) : EngineConsistent(r)
      /\ \A r \in 1..Len(pb') : EngineConsistent(r)'
      /\ \A r \in 1..Len(pb) :
           /\ pb'[r].consumed >= pb[r].consumed
           /\ pb'[r].remaining <= pb[r].remaining ]_vars

\* C38 witness: an engine that has consumed two actions of three
C38_Witness ==
  /\ CurRun >= 1
  /\ State.consumed = 2 /\ State.remaining = 1
  /\ Len(State.consumedActions) = 2
  /\ State.consumedActions[2].type = "call"

\* the handler as the test configured it in options.mockTools
Configured(handler) == IF handler.kind = "result" THEN HResult ELSE handler

\* C39: an invocation never alters the mock handler: the result of a mocked,
\* unblocked call is the one the handler as configured gives for the
\* parameters of the call, adjusted by the hook's answer to that call,
\* whatever invocations came before.
C39_HandlerNotRetained ==
  [][ MockSuccessStep =>
        LET mock == normalizeMockResult(Configured(Get(mockTools)[message.name]),
                                        message.arguments)
            expected == ApplyResultHook(mock, last'.resultHook)
            record == toolResults'[Len(toolResults')]
        IN /\ outcome'.result.content = expected.content
           /\ record.content = expected.content
           /\ record.details = expected.details
           /\ mockTools' = mockTools ]_vars

\* C39 for string and function handlers
C39_HandlerNotRetainedUnstructured ==
  [][ ( MockSuccessStep /\ Get(mockTools)[message.name].kind # "result" ) =>
        LET mock == normalizeMockResult(Configured(Get(mockTools)[message.name]),
                                        message.arguments)
            expected == ApplyResultHook(mock, last'.resultHook)
            record == toolResults'[Len(toolResults')]
        IN /\ outcome'.result.content = expected.content
           /\ record.content = expected.content
           /\ record.details = expected.details
           /\ mockTools' = mockTools ]_vars

\* C39, the results only: a mocked, unblocked call returns the content the
\* configured handler gives, adjusted by the hook's answer to that call
C39_SameResultForSameCall ==
  [][ MockSuccessStep =>
        LET mock == normalizeMockResult(Configured(Get(mockTools)[message.name]),
                                        message.arguments)
            expected == ApplyResultHook(mock, last'.resultHook)
        IN outcome'.result.content = expected.content ]_vars

\* the step is a tool invocation in which a completion callback threw
CallbackThrewStep ==
  /\ InvocationStep
  /\ Len(fired') > Len(fired)
  /\ fired'[Len(fired')].cb.kind = "throws"

\* C40: an exception a completion callback throws is contained: the
\* invocation ends as the tool ended (a result for a success, the tool's own
\* error otherwise), the Tool Result Record is appended and stays, and the
\* callback is removed from the pending map.
C40_CallbackErrorContained ==
  [][ CallbackThrewStep =>
        /\ last'.truth = "ok" => outcome'.kind = "return"
        /\ outcome'.kind = "throw" =>
             /\ Get(outcome'.err) # CallbackError
             /\ Includes(Get(outcome'.err).message, last'.reason[1])
        /\ Len(toolResults') > Len(toolResults)
        /\ SubSeq(toolResults', 1, Len(toolResults)) = toolResults
        /\ fired'[Len(fired')].record = toolResults'[Len(toolResults')]
        /\ message.id \notin DOMAIN pb'[CurRun].pendingCallbacks
        /\ envVal' = envVal ]_vars

\* C40 witness: the real tool succeeded, its callback threw, and the
\* invocation returned the result with the record in place
C40_Witness ==
  /\ AtOutcome /\ last.path = "wrapped" /\ last.truth = "ok"
  /\ Len(fired) = 1 /\ fired[1].cb.kind = "throws"
  /\ outcome.kind = "return"
  /\ Len(NewRecords) = 1 /\ ~NewRecords[1].isError
  /\ last.id \notin DOMAIN State.pendingCallbacks

====
